---- MODULE Spec2Model ----
(***************************************************************************)
(* Score Board action pipeline (problem6): request signing with a nonce    *)
(* store, sliding-window rate limiting, zero-trust score computation, the  *)
(* transactional score ledger and the middleware order.                    *)
(*                                                                         *)
(* Also the News API (problem5): JWT authentication, the auth controller,   *)
(* the role permissions, the news routes and controller; and the three     *)
(* ways to sum to n (problem4).                                            *)
(*                                                                         *)
(* Time is counted in seconds.  Each component has its own specification   *)
(* (SpecSig, SpecSigConc, ...) over its own variables; the variables of    *)
(* the other components stay at their initial value.                       *)
(***************************************************************************)
EXTENDS Integers, Sequences, FiniteSets, TLC

VARIABLES
    now,          \* server clock, seconds
    nonceStore,   \* Redis nonce:{nonce} -> expiry instant, or NoEntry
    accepted,     \* history: the signed requests verify has accepted
    sigLast,      \* the last verify call: request, result, what it met
    vpc,          \* concurrent verify: position of each call
    vreq,         \* concurrent verify: the request each call verifies
    vresult,      \* concurrent verify: the result of each call
    rlSet,        \* Redis sorted set of each rate_limit key: members [score, id]
    rlExpireAt,   \* the instant each rate_limit key expires, or NoEntry
    rlSeq,        \* number of check calls started so far (the uuid source)
    rlCalls,      \* history: the check calls made [key, at, id, count, result]
    rlLast,       \* the last check call: key, instant, result
    rpc,          \* concurrent check: position of each call
    rcall,        \* concurrent check: key, now, id and count of each call
    tasks,        \* server-held tasks: taskId -> [userId, completed], or NoTask
    userLevel,    \* server-held level of each user
    engIn,        \* the action request the engine was given
    engAlt,       \* the same request with another client-asserted reward
    engOut,       \* processAction's result on engIn
    engOutAlt,    \* processAction's result on engAlt
    current_score,  \* users.current_score, committed
    score_history,  \* score_history rows, committed, in commit order
    actions,        \* actions rows, committed
    rowLock,        \* the transaction holding each users row (FOR UPDATE)
    tpc,            \* each queue worker's position in its transaction
    tx,             \* each queue worker's open transaction
    initialScore,   \* history: current_score before any transaction
    txLog,          \* history: every transaction begun, and how it ended
    gwSet,          \* gateway rate limiting: the entries under each key
    ppc,            \* the middleware the request in the pipeline is at
    preq,           \* the request in the pipeline
    ptrace,         \* history: the checks that accepted preq, in order
    pcount,         \* requests received so far
    cacheDeleted,   \* history: cache keys deleted, with the request that caused it
    published,      \* history: score updates broadcast
    pipeLog,         \* history: how each request ended
    jpc,  \* queue job: where its processor is
    jdata,  \* the job's data: userId, actionType, actionData
    attemptsMade,  \* attempts of the job that have failed so far
    jtrail,  \* history: the error each failed attempt threw
    jcount,  \* jobs added to the queue so far
    wsState,  \* each WebSocket service instance: subscribed or restarting
    inflight,  \* score_updated events forwarded to each instance, not yet broadcast
    received,  \* history: the events each instance has broadcast to its clients
    evCount,  \* score_updated events published so far
    users,  \* problem5 user collection: sequence of user documents, _id = position
    tokens,  \* JWTs signed by the server so far
    authLast,  \* last auth request: operation, inputs and the collection before it
    authResp,  \* last auth response: status, message, token
    news,  \* problem5 news collection: sequence of articles, _id = position
    newsClock,  \* current time of the news API (new Date())
    newsLast,  \* last news request: operation, header, status, store before it
    permLog,  \* history: the hasPermission calls made: role, action, result, route guard
    listColl,  \* news documents being listed: _id -> sort key and category
    listQuery,  \* the query of the listing: limit, sort order, category filter
    listPages,  \* history: the response listNews gave for each page asked
    sumIn,  \* problem4: the argument n given to the three functions
    stackLimit,  \* call stack size of the JavaScript engine, in calls
    spc,  \* where the run of the three functions is
    si,  \* loop counter of sum_to_n_a, argument of the current sum_to_n_c call
    sacc,  \* sum of sum_to_n_a's loop, value returned to the current sum_to_n_c call
    sdepth,  \* sum_to_n_c calls on the stack
    sumOut,  \* what each function returned or threw
    lbScore,  \* current_score of each player's users row, NoUserRow before the row exists
    lbCached,  \* whether the key scoreboard:top10 holds a value
    lbEntries,  \* the entries cached under scoreboard:top10
    lbLast,  \* history: the last leaderboard operation
    adBase,  \* the base limit of the adaptive tier
    adRep,  \* the reputation of the user, 0-100
    adOut,  \* the adjusted limit, in fiftieths of a request
    opc,  \* where each concurrent processAction call stands
    oreq,  \* the request of each call
    otask,  \* the task each call read
    awards,  \* history: the awards updateUserScore committed
    ucDb,  \* current_score of each user in the database
    ucCache,  \* the entry of each key user:score:{userId}
    ucPc,  \* where each getUserScore call stands
    ucUser,  \* the user of each call
    ucData,  \* the data each call read from the database
    ucWriter,  \* the score update under way: its step and its user
    ucCommits  \* the number of score updates so far

sigVars  == <<now, nonceStore, accepted, sigLast>>
sigcVars == <<vpc, vreq, vresult>>
rateVars == <<rlSet, rlExpireAt, rlSeq, rlCalls, rlLast>>
ratecVars == <<rpc, rcall>>
engVars == <<tasks, userLevel, engIn, engAlt, engOut, engOutAlt>>
dbVars == <<current_score, score_history, actions>>
ledVars == <<dbVars, rowLock, tpc, tx, initialScore, txLog>>
pipeVars == <<gwSet, ppc, preq, ptrace, pcount, cacheDeleted, published, pipeLog>>
jobVars == <<jpc, jdata, attemptsMade, jtrail, jcount>>
bcVars == <<wsState, inflight, received, evCount>>
authVars == <<users, tokens, authLast, authResp>>
newsVars == <<news, newsClock, newsLast>>
permVars == <<permLog>>
listVars == <<listColl, listQuery, listPages>>
sumVars == <<sumIn, stackLimit, spc, si, sacc, sdepth, sumOut>>
lbVars == <<lbScore, lbCached, lbEntries, lbLast>>
adVars == <<adBase, adRep, adOut>>
otVars == <<opc, oreq, otask, awards>>
ucVars == <<ucDb, ucCache, ucPc, ucUser, ucData, ucWriter, ucCommits>>
vars == <<sigVars, sigcVars, rateVars, ratecVars, engVars, ledVars, pipeVars, jobVars, bcVars, authVars, newsVars, permVars, listVars, sumVars, lbVars, adVars, otVars, ucVars>>

\* the variables each specification leaves alone
exceptSig == <<sigcVars, rateVars, ratecVars, engVars, ledVars, pipeVars, jobVars, bcVars, authVars, newsVars, permVars, listVars, sumVars, lbVars, adVars, otVars, ucVars>>
exceptSigConc == <<rateVars, ratecVars, engVars, ledVars, pipeVars, jobVars, bcVars, authVars, newsVars, permVars, listVars, sumVars, lbVars, adVars, otVars, ucVars>>
exceptRate == <<nonceStore, accepted, sigLast, sigcVars, ratecVars, engVars, ledVars, pipeVars, jobVars, bcVars, authVars, newsVars, permVars, listVars, sumVars, lbVars, adVars, otVars, ucVars>>
exceptRateConc == <<nonceStore, accepted, sigLast, sigcVars, engVars, ledVars, pipeVars, jobVars, bcVars, authVars, newsVars, permVars, listVars, sumVars, lbVars, adVars, otVars, ucVars>>
exceptEng == <<sigVars, sigcVars, rateVars, ratecVars, ledVars, pipeVars, jobVars, bcVars, authVars, newsVars, permVars, listVars, sumVars, lbVars, adVars, otVars, ucVars>>
exceptLed == <<sigVars, sigcVars, rateVars, ratecVars, engVars, pipeVars, jobVars, bcVars, authVars, newsVars, permVars, listVars, sumVars, lbVars, adVars, otVars, ucVars>>
exceptPipe == <<now, accepted, sigLast, sigcVars, rateVars, ratecVars, userLevel,
                engIn, engAlt, engOut, engOutAlt, rowLock, tpc, tx, initialScore, txLog, jobVars, bcVars, authVars, newsVars, permVars, listVars, sumVars, lbVars, adVars, otVars, ucVars>>
exceptJob == <<sigVars, sigcVars, rateVars, ratecVars, engVars, rowLock, tpc, tx,
               initialScore, txLog, gwSet, ppc, preq, ptrace, pcount, cacheDeleted, pipeLog, bcVars, authVars, newsVars, permVars, listVars, sumVars, lbVars, adVars, otVars, ucVars>>
exceptBc == <<sigVars, sigcVars, rateVars, ratecVars, engVars, ledVars, pipeVars, jobVars, authVars, newsVars, permVars, listVars, sumVars, lbVars, adVars, otVars, ucVars>>
exceptAuth == <<sigVars, sigcVars, rateVars, ratecVars, engVars, ledVars, pipeVars, jobVars, bcVars, newsVars, permVars, listVars, sumVars, lbVars, adVars, otVars, ucVars>>
exceptNews == <<sigVars, sigcVars, rateVars, ratecVars, engVars, ledVars, pipeVars, jobVars, bcVars, authVars, permVars, listVars, sumVars, lbVars, adVars, otVars, ucVars>>
exceptPerm == <<sigVars, sigcVars, rateVars, ratecVars, engVars, ledVars, pipeVars, jobVars, bcVars, authVars, newsVars, listVars, sumVars, lbVars, adVars, otVars, ucVars>>
exceptList == <<sigVars, sigcVars, rateVars, ratecVars, engVars, ledVars, pipeVars, jobVars, bcVars, authVars, newsVars, permVars, sumVars, lbVars, adVars, otVars, ucVars>>
exceptSum == <<sigVars, sigcVars, rateVars, ratecVars, engVars, ledVars, pipeVars, jobVars, bcVars, authVars, newsVars, permVars, listVars, lbVars, adVars, otVars, ucVars>>
exceptLb == <<sigVars, sigcVars, rateVars, ratecVars, engVars, ledVars, pipeVars, jobVars, bcVars, authVars, newsVars, permVars, listVars, sumVars, adVars, otVars, ucVars>>
exceptAd == <<sigVars, sigcVars, rateVars, ratecVars, engVars, ledVars, pipeVars, jobVars, bcVars, authVars, newsVars, permVars, listVars, sumVars, lbVars, otVars, ucVars>>
exceptOt == <<sigVars, sigcVars, rateVars, ratecVars, engVars, ledVars, pipeVars, jobVars, bcVars, authVars, newsVars, permVars, listVars, sumVars, lbVars, adVars, ucVars>>
exceptUc == <<sigVars, sigcVars, rateVars, ratecVars, engVars, ledVars, pipeVars, jobVars, bcVars, authVars, newsVars, permVars, listVars, sumVars, lbVars, adVars, otVars>>

-----------------------------------------------------------------------------
(* Bounds of the model *)

TimeStep == 20
MaxTime == 400
NumCalls == 2
MaxAccepted == 1
MaxRateTime == 140
MaxRateConcTime == 60
MaxChecks == 4
limit == 2

-----------------------------------------------------------------------------
(* Request signing: part_009 "LAYER 3: REQUEST SIGNING VERIFICATION" *)

StaleSeconds == 60
FutureSeconds == 5
NonceTTLMinutes == 5
NonceTTL == NonceTTLMinutes * 60

NoEntry == -1
NoSecret == "none"
NoHeader == <<"missing">>

Users == {"u1", "u2"}
Nonces == {"n1", "n2"}
Payloads == {"p1"}
Secrets == {"k1", "kx"}

\* signing_secret:{userId}: u1 has a session secret, u2 has no session
signing_secret == [u \in Users |-> IF u = "u1" THEN "k1" ELSE NoSecret]

\* the offsets from the client's clock reading a request's timestamp may have
TimestampOffsets == {0 - 80, 0 - 60, 0, 5, 10}

\* message = `${payload}|${nonce}|${timestamp}|${userId}`
Message(payload, nonce, timestamp, userId) == <<payload, nonce, timestamp, userId>>

\* HMAC-SHA256 as a keyed function that is injective in (secret, message)
HMAC_SHA256(secret, message) == <<"hmac", secret, message>>

\* the request the holder of secret k signs for userId at timestamp ts
SignedRequest(payload, nonce, ts, userId, k) ==
    [payload |-> payload, nonce |-> nonce, timestamp |-> ts, userId |-> userId,
     signature |-> HMAC_SHA256(k, Message(payload, nonce, ts, userId))]

\* the same request with its X-Signature header left out
Unsigned(payload, nonce, ts, userId) ==
    [payload |-> payload, nonce |-> nonce, timestamp |-> ts, userId |-> userId,
     signature |-> NoHeader]

\* correctly signed: signed with the session secret of the user it names
CorrectlySigned(req) ==
    /\ signing_secret[req.userId] # NoSecret
    /\ req.signature = HMAC_SHA256(signing_secret[req.userId],
                          Message(req.payload, req.nonce, req.timestamp, req.userId))

\* mutant of IsStale: the 60 seconds compared as if the clock counted milliseconds
IsStaleMillis(req, t) == t - req.timestamp > StaleSeconds * 1000

\* step 2, first half: reject if now - timestamp > 60 seconds
IsStale(req, t) == t - req.timestamp > StaleSeconds

\* step 2, second half: reject if timestamp > now + 5 seconds
IsFuture(req, t) == req.timestamp > t + FutureSeconds

\* step 3: Redis nonce:{nonce} exists; a key is gone once its TTL has run out
NonceExists(store, nonce, t) == store[nonce] # NoEntry /\ t < store[nonce]

\* mutant of StoreNonce: the TTL of 5 taken as seconds
StoreNonceShortTTL(store, nonce, t) == [store EXCEPT ![nonce] = t + NonceTTLMinutes]

\* mutant of StoreNonce: the TTL taken to be the 60 seconds of the timestamp check
StoreNonceWindowTTL(store, nonce, t) == [store EXCEPT ![nonce] = t + StaleSeconds]

\* step 7: save the nonce with TTL 5 minutes
StoreNonce(store, nonce, t) == [store EXCEPT ![nonce] = t + NonceTTL]

\* steps 1-3, up to the nonce lookup: the rejection, or "OK" to go on
CheckFreshness(req, store, t) ==
    IF req.signature = NoHeader THEN "MISSING_SIGNATURE_HEADERS"
    ELSE IF IsStale(req, t) THEN "STALE_REQUEST"
    ELSE IF IsFuture(req, t) THEN "FUTURE_REQUEST"
    ELSE IF NonceExists(store, req.nonce, t) THEN "REPLAY_ATTACK"
    ELSE "OK"

\* steps 4-6: the shared secret, the recomputed signature, the comparison
CheckSignature(req) ==
    IF signing_secret[req.userId] = NoSecret THEN "NO_SIGNING_SECRET"
    ELSE IF req.signature # HMAC_SHA256(signing_secret[req.userId],
                               Message(req.payload, req.nonce, req.timestamp, req.userId))
         THEN "INVALID_SIGNATURE"
    ELSE "OK"

\* the 7-step validation run by one server with no other call in between
VerifyResult(req, store, t) ==
    IF CheckFreshness(req, store, t) # "OK" THEN CheckFreshness(req, store, t)
    ELSE CheckSignature(req)

\* the requests a client, or somebody who forges one, sends at instant t
RequestsAt(t) ==
    UNION { { SignedRequest(p, n, t + off, u, k), Unsigned(p, n, t + off, u) } :
            <<p, n, off, u, k>> \in Payloads \X Nonces \X TimestampOffsets \X Users \X Secrets }

NoRequest == Unsigned("none", "none", 0, "none")

NoCall == [req |-> NoRequest, result |-> "none", at |-> 0,
           seenBefore |-> FALSE, withinTTL |-> FALSE]

Calls == 1..NumCalls

InitSig ==
    /\ now = 0
    /\ nonceStore = [n \in Nonces |-> NoEntry]
    /\ accepted = {}
    /\ sigLast = NoCall

InitSigConc ==
    /\ vpc = [c \in Calls |-> "idle"]
    /\ vreq = [c \in Calls |-> NoRequest]
    /\ vresult = [c \in Calls |-> "none"]

\* the clock advances; the record of the last call is of that instant only
Tick ==
    /\ now + TimeStep <= MaxTime
    /\ now' = now + TimeStep
    /\ sigLast' = NoCall
    /\ UNCHANGED <<nonceStore, accepted, exceptSig>>

\* verify with the nonce saved right after the lookup, before the signature
\* is compared
VerifyCallStoreFirst(req) ==
    /\ sigLast' = [req |-> req, result |-> VerifyResult(req, nonceStore, now), at |-> now,
                   seenBefore |-> \E a \in accepted : a.req = req,
                   withinTTL |-> \E a \in accepted : a.req = req /\ now < a.at + NonceTTL]
    /\ nonceStore' = IF CheckFreshness(req, nonceStore, now) = "OK"
                     THEN StoreNonce(nonceStore, req.nonce, now)
                     ELSE nonceStore
    /\ accepted' = IF VerifyResult(req, nonceStore, now) = "OK"
                   THEN accepted \cup {[req |-> req, at |-> now]}
                   ELSE accepted
    /\ UNCHANGED <<now, exceptSig>>

\* one verify call on req, from its first step to its last
VerifyCall(req) ==
    /\ sigLast' = [req |-> req, result |-> VerifyResult(req, nonceStore, now), at |-> now,
                   seenBefore |-> \E a \in accepted : a.req = req,
                   withinTTL |-> \E a \in accepted : a.req = req /\ now < a.at + NonceTTL]
    /\ nonceStore' = IF VerifyResult(req, nonceStore, now) = "OK"
                     THEN StoreNonce(nonceStore, req.nonce, now)
                     ELSE nonceStore
    /\ accepted' = IF VerifyResult(req, nonceStore, now) = "OK"
                   THEN accepted \cup {[req |-> req, at |-> now]}
                   ELSE accepted
    /\ UNCHANGED <<now, exceptSig>>

\* a request is made now and submitted
Submit ==
    /\ Cardinality(accepted) < MaxAccepted
    /\ \E req \in RequestsAt(now) : VerifyCall(req)

\* a request accepted earlier is submitted again, unchanged
Resubmit ==
    \E a \in accepted : VerifyCall(a.req)

NextSig ==
    \/ Tick
    \/ Submit
    \/ Resubmit

-----------------------------------------------------------------------------
(* verify calls running concurrently: every Redis command is one step *)

\* the requests of the concurrent calls: made at this instant
ConcRequests == { r \in RequestsAt(now) : r.timestamp = now }

\* steps 1-3: headers, timestamp, then the lookup of nonce:{nonce}
VCheckNonce(c) ==
    /\ vpc[c] = "idle"
    /\ \E req \in ConcRequests :
        /\ vreq' = [vreq EXCEPT ![c] = req]
        /\ IF CheckFreshness(req, nonceStore, now) = "OK"
           THEN /\ vpc' = [vpc EXCEPT ![c] = "getSecret"]
                /\ UNCHANGED vresult
           ELSE /\ vpc' = [vpc EXCEPT ![c] = "done"]
                /\ vresult' = [vresult EXCEPT ![c] = CheckFreshness(req, nonceStore, now)]
    /\ UNCHANGED <<sigVars, exceptSigConc>>

\* steps 4-6: the lookup of signing_secret:{userId}, then the comparison
VGetSecret(c) ==
    /\ vpc[c] = "getSecret"
    /\ IF CheckSignature(vreq[c]) = "OK"
       THEN /\ vpc' = [vpc EXCEPT ![c] = "storeNonce"]
            /\ UNCHANGED vresult
       ELSE /\ vpc' = [vpc EXCEPT ![c] = "done"]
            /\ vresult' = [vresult EXCEPT ![c] = CheckSignature(vreq[c])]
    /\ UNCHANGED <<vreq, sigVars, exceptSigConc>>

\* step 7: the nonce is saved and the request goes on
VStoreNonce(c) ==
    /\ vpc[c] = "storeNonce"
    /\ nonceStore' = StoreNonce(nonceStore, vreq[c].nonce, now)
    /\ accepted' = accepted \cup {[req |-> vreq[c], at |-> now]}
    /\ vpc' = [vpc EXCEPT ![c] = "done"]
    /\ vresult' = [vresult EXCEPT ![c] = "OK"]
    /\ UNCHANGED <<vreq, now, sigLast, exceptSigConc>>

NextSigConc ==
    \/ \E c \in Calls : VCheckNonce(c)
    \/ \E c \in Calls : VGetSecret(c)
    \/ \E c \in Calls : VStoreNonce(c)

-----------------------------------------------------------------------------
(* Rate limiting: README "Sliding Window", implementation with Redis *)

WindowSeconds == 60

\* rlExpireAt of a key that exists and has no TTL
Persist == -2

\* key = `rate_limit:${userId}:${action}`
RateKeys == {"rate_limit:u1:COMPLETE_TASK", "rate_limit:u2:COMPLETE_TASK"}

\* whether a key exists at instant t: it was written, and its TTL has not run out
KeyExists(expireAt, key, t) ==
    expireAt[key] = Persist \/ (expireAt[key] # NoEntry /\ t < expireAt[key])

\* the sorted set a command finds under key at instant t
ZSet(sets, expireAt, key, t) ==
    IF KeyExists(expireAt, key, t) THEN sets[key] ELSE {}

\* zremrangebyscore(key, min, max): both ends inclusive
ZRemRangeByScore(set, min, max) == { m \in set : ~(min <= m.score /\ m.score <= max) }

\* zcard(key)
ZCard(set) == Cardinality(set)

\* zadd(key, now, `${now}-${uuid()}`)
ZAdd(set, score, id) == set \cup {[score |-> score, id |-> id]}

\* the sorted set after "Remove old entries" by a call that read the clock at t
Purge(set, t) == ZRemRangeByScore(set, 0, t - WindowSeconds)

\* mutant of Exceeded: the comparison off by one
ExceededOffByOne(count) == count > limit

\* if (count >= limit) throw new Error('RATE_LIMIT_EXCEEDED')
Exceeded(count) == count >= limit

\* expire(key, Math.ceil(windowSize / 1000)) run at instant t: when the key expires
ExpireAt(t) == t + WindowSeconds

\* the TTL a key has after a command left `set` under it: Redis removes a key
\* whose sorted set is empty, and a key that zadd creates has no TTL
TTLAfter(expireAt, key, t, set) ==
    IF set = {} THEN NoEntry
    ELSE IF KeyExists(expireAt, key, t) THEN expireAt[key]
    ELSE Persist

NoCheck == [key |-> "none", at |-> 0, id |-> 0, count |-> 0, result |-> "none"]
NoRateCall == [key |-> "none", now |-> 0, id |-> 0, count |-> 0]

AllowedCalls == { c \in rlCalls : c.result = "OK" }

InitRate ==
    /\ rlSet = [k \in RateKeys |-> {}]
    /\ rlExpireAt = [k \in RateKeys |-> NoEntry]
    /\ rlSeq = 0
    /\ rlCalls = {}
    /\ rlLast = NoCheck

InitRateConc ==
    /\ rpc = [c \in Calls |-> "idle"]
    /\ rcall = [c \in Calls |-> NoRateCall]

\* the clock advances
RateTick ==
    /\ now + TimeStep <= MaxRateTime
    /\ now' = now + TimeStep
    /\ rlLast' = NoCheck
    /\ UNCHANGED <<rlSet, rlExpireAt, rlSeq, rlCalls, exceptRate>>

\* one check call on key, from its first command to its last
Check(key) ==
    /\ rlSeq < MaxChecks
    /\ rlSeq' = rlSeq + 1
    /\ LET purged == Purge(ZSet(rlSet, rlExpireAt, key, now), now)
       IN IF Exceeded(ZCard(purged))
          THEN /\ rlSet' = [rlSet EXCEPT ![key] = purged]
               /\ rlExpireAt' = [rlExpireAt EXCEPT ![key] = TTLAfter(rlExpireAt, key, now, purged)]
               /\ rlLast' = [key |-> key, at |-> now, id |-> rlSeq + 1,
                             count |-> ZCard(purged), result |-> "RATE_LIMIT_EXCEEDED"]
          ELSE /\ rlSet' = [rlSet EXCEPT ![key] = ZAdd(purged, now, rlSeq + 1)]
               /\ rlExpireAt' = [rlExpireAt EXCEPT ![key] = ExpireAt(now)]
               /\ rlLast' = [key |-> key, at |-> now, id |-> rlSeq + 1,
                             count |-> ZCard(purged), result |-> "OK"]
    /\ rlCalls' = rlCalls \cup {rlLast'}
    /\ UNCHANGED <<now, exceptRate>>

NextRate ==
    \/ RateTick
    \/ \E key \in RateKeys : Check(key)

-----------------------------------------------------------------------------
(* check calls running concurrently: every Redis command is one step *)

\* const now = Date.now(); await redis.zremrangebyscore(key, 0, now - windowSize)
RPurge(c) ==
    /\ rpc[c] = "idle"
    /\ rlSeq < MaxChecks
    /\ rlSeq' = rlSeq + 1
    /\ \E key \in RateKeys :
        /\ rcall' = [rcall EXCEPT ![c] = [key |-> key, now |-> now, id |-> rlSeq + 1, count |-> 0]]
        /\ rlSet' = [rlSet EXCEPT ![key] = Purge(ZSet(rlSet, rlExpireAt, key, now), now)]
        /\ rlExpireAt' = [rlExpireAt EXCEPT ![key] =
                             TTLAfter(rlExpireAt, key, now, Purge(ZSet(rlSet, rlExpireAt, key, now), now))]
    /\ rpc' = [rpc EXCEPT ![c] = "count"]
    /\ UNCHANGED <<rlCalls, rlLast, now, exceptRateConc>>

\* const count = await redis.zcard(key); if (count >= limit) throw
RCount(c) ==
    /\ rpc[c] = "count"
    /\ LET count == ZCard(ZSet(rlSet, rlExpireAt, rcall[c].key, now))
       IN IF Exceeded(count)
          THEN /\ rpc' = [rpc EXCEPT ![c] = "idle"]
               /\ rcall' = [rcall EXCEPT ![c] = NoRateCall]
               /\ rlCalls' = rlCalls \cup {[key |-> rcall[c].key, at |-> rcall[c].now,
                                           id |-> rcall[c].id, count |-> count,
                                           result |-> "RATE_LIMIT_EXCEEDED"]}
          ELSE /\ rpc' = [rpc EXCEPT ![c] = "add"]
               /\ rcall' = [rcall EXCEPT ![c].count = count]
               /\ UNCHANGED rlCalls
    /\ UNCHANGED <<rlSet, rlExpireAt, rlSeq, rlLast, now, exceptRateConc>>

\* await redis.zadd(key, now, `${now}-${uuid()}`)
RAdd(c) ==
    /\ rpc[c] = "add"
    /\ LET key == rcall[c].key
           set == ZAdd(ZSet(rlSet, rlExpireAt, key, now), rcall[c].now, rcall[c].id)
       IN /\ rlSet' = [rlSet EXCEPT ![key] = set]
          /\ rlExpireAt' = [rlExpireAt EXCEPT ![key] = TTLAfter(rlExpireAt, key, now, set)]
    /\ rlCalls' = rlCalls \cup {[key |-> rcall[c].key, at |-> rcall[c].now,
                                id |-> rcall[c].id, count |-> rcall[c].count,
                                result |-> "OK"]}
    /\ rpc' = [rpc EXCEPT ![c] = "expire"]
    /\ UNCHANGED <<rcall, rlSeq, rlLast, now, exceptRateConc>>

\* await redis.expire(key, Math.ceil(windowSize / 1000)); no effect on a missing key
RExpire(c) ==
    /\ rpc[c] = "expire"
    /\ rlExpireAt' = [rlExpireAt EXCEPT ![rcall[c].key] =
                         IF KeyExists(rlExpireAt, rcall[c].key, now) THEN ExpireAt(now) ELSE NoEntry]
    /\ rpc' = [rpc EXCEPT ![c] = "idle"]
    /\ rcall' = [rcall EXCEPT ![c] = NoRateCall]
    /\ UNCHANGED <<rlSet, rlSeq, rlCalls, rlLast, now, exceptRateConc>>

\* the clock advances while calls are under way
RateConcTick ==
    /\ now + TimeStep <= MaxRateConcTime
    /\ now' = now + TimeStep
    /\ UNCHANGED <<rateVars, ratecVars, exceptRateConc>>

NextRateConc ==
    \/ \E c \in Calls : RPurge(c)
    \/ \E c \in Calls : RCount(c)
    \/ \E c \in Calls : RAdd(c)
    \/ \E c \in Calls : RExpire(c)
    \/ RateConcTick

-----------------------------------------------------------------------------
(* Zero-trust score calculation: README processAction *)

ActionTypes == {"COMPLETE_TASK", "DAILY_LOGIN", "SHARE_CONTENT"}
TaskIds == {"t1", "t2"}
Levels == {1, 2}
NoTask == [userId |-> "none", completed |-> FALSE]

\* the states the server may hold a task in
TaskStates == {NoTask} \cup [userId : Users, completed : BOOLEAN]

\* SCORE_TABLE[actionType]: base score from the server's config
SCORE_TABLE == [a \in ActionTypes |->
    IF a = "COMPLETE_TASK" THEN 50 ELSE IF a = "DAILY_LOGIN" THEN 10 ELSE 20]

\* LEVEL_MULTIPLIERS[userLevel]
LEVEL_MULTIPLIERS == [l \in Levels |-> l]

\* what a client may put into the request
CompletionTimes == {30, 60, 120}
PointsRequested == {0, 100}

\* the action data of a request: taskId and completionTime, and the reward
\* the client asks for
Metadata == [taskId : TaskIds, completionTime : CompletionTimes,
             pointsRequested : PointsRequested]

\* points *= 1.5 when metadata.completionTime < 60 (quick completion bonus)
QuickBonus(points, metadata) ==
    IF metadata.completionTime < 60 THEN (points * 3) \div 2 ELSE points

\* mutant of Points: the reward the client asks for is trusted
PointsTrustClient(actionType, metadata, level) == metadata.pointsRequested

\* 2. CALCULATE score (server-side logic)
Points(actionType, metadata, level) ==
    QuickBonus(SCORE_TABLE[actionType], metadata) * LEVEL_MULTIPLIERS[level]

\* processAction(userId, actionType, metadata) up to the award: the rejection,
\* or the points to award
processAction(userId, actionType, metadata, taskTable, levels) ==
    IF taskTable[metadata.taskId] = NoTask
        THEN [status |-> "TASK_NOT_FOUND", points |-> 0]
    ELSE IF taskTable[metadata.taskId].userId # userId
        THEN [status |-> "UNAUTHORIZED", points |-> 0]
    ELSE IF taskTable[metadata.taskId].completed
        THEN [status |-> "ALREADY_COMPLETED", points |-> 0]
    ELSE [status |-> "OK", points |-> Points(actionType, metadata, levels[userId])]

NoAction == [userId |-> "none", actionType |-> "none",
             metadata |-> [taskId |-> "none", completionTime |-> 0, pointsRequested |-> 0]]
NoOutcome == [status |-> "none", points |-> 0]

InitEng ==
    /\ tasks = [t \in TaskIds |-> NoTask]
    /\ userLevel = [u \in Users |-> 1]
    /\ engIn = NoAction
    /\ engAlt = NoAction
    /\ engOut = NoOutcome
    /\ engOutAlt = NoOutcome

\* the server-held state the engine runs against
InitEngAny ==
    /\ tasks \in [TaskIds -> TaskStates]
    /\ userLevel \in [Users -> Levels]
    /\ engIn = NoAction
    /\ engAlt = NoAction
    /\ engOut = NoOutcome
    /\ engOutAlt = NoOutcome

\* a request and its copy with another pointsRequested are processed against
\* the same tasks, levels and score table
ProcessPair ==
    /\ \E u \in Users, a \in ActionTypes, md \in Metadata, p \in PointsRequested :
        /\ engIn' = [userId |-> u, actionType |-> a, metadata |-> md]
        /\ engAlt' = [userId |-> u, actionType |-> a,
                      metadata |-> [md EXCEPT !.pointsRequested = p]]
        /\ engOut' = processAction(u, a, md, tasks, userLevel)
        /\ engOutAlt' = processAction(u, a, [md EXCEPT !.pointsRequested = p],
                                      tasks, userLevel)
    /\ UNCHANGED <<tasks, userLevel, exceptEng>>

NextEng == ProcessPair

-----------------------------------------------------------------------------
(* Database transaction flow for a score update: FLOW_DIAGRAM section 6 *)

NumWorkers == 2
MaxTx == 2
attempts == 3
Workers == 1..NumWorkers
NoWorker == 0
Deltas == {10, 25}
InitialScores == {0, 100}

NoRow == [id |-> 0, user_id |-> "none", score_change |-> 0,
          score_before |-> 0, score_after |-> 0]
NoTx == [id |-> 0, userId |-> "none", delta |-> 0, attempt |-> 0,
         before |-> 0, newScore |-> 0, row |-> NoRow]

\* mutant of RowLocked: the users row is read without FOR UPDATE
RowLockedNever(locks, userId, w) == FALSE

\* SELECT user FOR UPDATE waits while another transaction holds the row
RowLocked(locks, userId, w) == locks[userId] # NoWorker /\ locks[userId] # w

\* Calculate New Score
NewScore(before, delta) == before + delta

\* mutant of HistoryRow: score_before is read after the UPDATE
HistoryRowAfterUpdate(t) ==
    [id |-> t.id, user_id |-> t.userId, score_change |-> t.delta,
     score_before |-> t.newScore, score_after |-> t.newScore]

\* the score_history row of a transaction
HistoryRow(t) ==
    [id |-> t.id, user_id |-> t.userId, score_change |-> t.delta,
     score_before |-> t.before, score_after |-> t.newScore]

\* the actions row of a transaction
ActionRow(t) == [id |-> t.id, user_id |-> t.userId, score_awarded |-> t.delta]

\* mutant of ScoreAfterRollback: the UPDATE survives the rollback
ScoreAfterRollbackKept(committedScore, t, pc) ==
    IF pc \in {"updated", "historyInserted", "actionInserted"}
        THEN t.newScore ELSE committedScore

\* ROLLBACK TRANSACTION: the committed score is what it was
ScoreAfterRollback(committedScore, t, pc) == committedScore

\* the rows of one user, in commit order
RECURSIVE RowsOf(_, _)
RowsOf(history, userId) ==
    IF history = <<>> THEN <<>>
    ELSE IF Head(history).user_id = userId
        THEN <<Head(history)>> \o RowsOf(Tail(history), userId)
        ELSE RowsOf(Tail(history), userId)

InitLedger ==
    /\ current_score = [u \in Users |-> 0]
    /\ score_history = <<>>
    /\ actions = {}
    /\ rowLock = [u \in Users |-> NoWorker]
    /\ tpc = [w \in Workers |-> "idle"]
    /\ tx = [w \in Workers |-> NoTx]
    /\ initialScore = current_score
    /\ txLog = <<>>

\* the users table before the first score update
InitLedgerAny ==
    /\ current_score \in [Users -> InitialScores]
    /\ score_history = <<>>
    /\ actions = {}
    /\ rowLock = [u \in Users |-> NoWorker]
    /\ tpc = [w \in Workers |-> "idle"]
    /\ tx = [w \in Workers |-> NoTx]
    /\ initialScore = current_score
    /\ txLog = <<>>

LogEntry(t) == [userId |-> t.userId, delta |-> t.delta, status |-> "open",
                began |-> Len(score_history), order |-> 0, dropped |-> FALSE]

\* BEGIN TRANSACTION for a job taken from the queue
Begin(w) ==
    /\ tpc[w] = "idle"
    /\ Len(txLog) < MaxTx
    /\ \E u \in Users, d \in Deltas :
        /\ tx' = [tx EXCEPT ![w] = [NoTx EXCEPT !.id = Len(txLog) + 1,
                      !.userId = u, !.delta = d, !.attempt = 1]]
        /\ txLog' = Append(txLog, LogEntry(tx'[w]))
    /\ tpc' = [tpc EXCEPT ![w] = "begun"]
    /\ UNCHANGED <<dbVars, rowLock, initialScore, exceptLed>>

\* Retry Logic: the failed job is run again in a new transaction
BeginRetry(w) ==
    /\ tpc[w] = "retry"
    /\ Len(txLog) < MaxTx
    /\ tx' = [tx EXCEPT ![w] = [NoTx EXCEPT !.id = Len(txLog) + 1,
                  !.userId = tx[w].userId, !.delta = tx[w].delta,
                  !.attempt = tx[w].attempt + 1]]
    /\ txLog' = Append(txLog, LogEntry(tx'[w]))
    /\ tpc' = [tpc EXCEPT ![w] = "begun"]
    /\ UNCHANGED <<dbVars, rowLock, initialScore, exceptLed>>

\* SELECT user FOR UPDATE: takes the row lock and reads the committed score
SelectForUpdate(w) ==
    /\ tpc[w] = "begun"
    /\ ~RowLocked(rowLock, tx[w].userId, w)
    /\ rowLock' = [rowLock EXCEPT ![tx[w].userId] = w]
    /\ tx' = [tx EXCEPT ![w].before = current_score[tx[w].userId]]
    /\ tpc' = [tpc EXCEPT ![w] = "selected"]
    /\ UNCHANGED <<dbVars, initialScore, txLog, exceptLed>>

\* Calculate New Score, then UPDATE users SET current_score = ?
\* (pending until the commit)
UpdateUser(w) ==
    /\ tpc[w] = "selected"
    /\ tx' = [tx EXCEPT ![w].newScore = NewScore(tx[w].before, tx[w].delta)]
    /\ tpc' = [tpc EXCEPT ![w] = "updated"]
    /\ UNCHANGED <<dbVars, rowLock, initialScore, txLog, exceptLed>>

\* INSERT INTO score_history (pending until the commit)
InsertHistory(w) ==
    /\ tpc[w] = "updated"
    /\ tx' = [tx EXCEPT ![w].row = HistoryRow(tx[w])]
    /\ tpc' = [tpc EXCEPT ![w] = "historyInserted"]
    /\ UNCHANGED <<dbVars, rowLock, initialScore, txLog, exceptLed>>

\* INSERT INTO actions (pending until the commit)
InsertAction(w) ==
    /\ tpc[w] = "historyInserted"
    /\ tpc' = [tpc EXCEPT ![w] = "actionInserted"]
    /\ UNCHANGED <<dbVars, rowLock, tx, initialScore, txLog, exceptLed>>

\* the row lock is released when the transaction ends
Release(locks, userId, w) ==
    IF locks[userId] = w THEN [locks EXCEPT ![userId] = NoWorker] ELSE locks

\* All Operations Success: COMMIT TRANSACTION makes the three writes visible
\* together
Commit(w) ==
    /\ tpc[w] = "actionInserted"
    /\ current_score' = [current_score EXCEPT ![tx[w].userId] = tx[w].newScore]
    /\ score_history' = Append(score_history, tx[w].row)
    /\ actions' = actions \cup {ActionRow(tx[w])}
    /\ rowLock' = Release(rowLock, tx[w].userId, w)
    /\ txLog' = [txLog EXCEPT ![tx[w].id].status = "committed",
                              ![tx[w].id].order = Len(score_history) + 1]
    /\ tx' = [tx EXCEPT ![w] = NoTx]
    /\ tpc' = [tpc EXCEPT ![w] = "idle"]
    /\ UNCHANGED <<initialScore, exceptLed>>

\* Any Operation Failed: ROLLBACK TRANSACTION drops the pending writes; the
\* job is retried while it has attempts left
Rollback(w) ==
    /\ tpc[w] \in {"begun", "selected", "updated", "historyInserted", "actionInserted"}
    /\ current_score' = [current_score EXCEPT ![tx[w].userId] =
                            ScoreAfterRollback(current_score[tx[w].userId], tx[w], tpc[w])]
    /\ rowLock' = Release(rowLock, tx[w].userId, w)
    /\ txLog' = [txLog EXCEPT ![tx[w].id].status = "rolledBack",
                              ![tx[w].id].dropped = (tx[w].row # NoRow)]
    /\ IF tx[w].attempt < attempts
          THEN /\ tpc' = [tpc EXCEPT ![w] = "retry"]
               /\ tx' = [tx EXCEPT ![w] = [NoTx EXCEPT !.userId = tx[w].userId,
                             !.delta = tx[w].delta, !.attempt = tx[w].attempt]]
          ELSE /\ tpc' = [tpc EXCEPT ![w] = "idle"]
               /\ tx' = [tx EXCEPT ![w] = NoTx]
    /\ UNCHANGED <<score_history, actions, initialScore, exceptLed>>

NextLedger ==
    \/ \E w \in Workers : Begin(w)
    \/ \E w \in Workers : BeginRetry(w)
    \/ \E w \in Workers : SelectForUpdate(w)
    \/ \E w \in Workers : UpdateUser(w)
    \/ \E w \in Workers : InsertHistory(w)
    \/ \E w \in Workers : InsertAction(w)
    \/ \E w \in Workers : Commit(w)
    \/ \E w \in Workers : Rollback(w)

-----------------------------------------------------------------------------
(* Middleware orchestration: API gateway guide, Execution Order *)

MaxRequests == 3

Permissions == {"EXECUTE_ACTION", "VIEW_SCOREBOARD"}
TokenStates == {"valid", "expired"}

\* Tier 2 key ratelimit:user:{userId}, tier 3 key ratelimit:action:{actionType}:{userId}
UserKey(userId) == <<"ratelimit:user", "", userId>>
ActionKey(actionType, userId) == <<"ratelimit:action", actionType, userId>>
GatewayKeys == { UserKey(u) : u \in Users }
               \cup { ActionKey(a, u) : <<a, u>> \in ActionTypes \X Users }

\* Tier 3 limits of each action type
ActionLimits == [a \in ActionTypes |->
    IF a = "COMPLETE_TASK" THEN 20 ELSE IF a = "DAILY_LOGIN" THEN 1 ELSE 10]

\* the access token of a request: payload userId and permissions, and what
\* the verification flow finds
Tokens == [userId : Users, state : TokenStates,
           permissions : {Permissions, {"VIEW_SCOREBOARD"}}]

\* the requests a client sends to POST /api/actions/execute
PipelineRequests(t) ==
    { [token |-> tok, signed |-> SignedRequest("p1", n, t + off, tok.userId, k),
       actionType |-> a,
       metadata |-> [taskId |-> task, completionTime |-> 30, pointsRequested |-> 100]] :
      <<tok, n, off, k, a, task>> \in
          Tokens \X Nonces \X {0 - 80, 0} \X Secrets \X {"COMPLETE_TASK", "DAILY_LOGIN"} \X TaskIds }

NoPipelineRequest ==
    [token |-> [userId |-> "none", state |-> "none", permissions |-> {}],
     signed |-> NoRequest, actionType |-> "none", metadata |-> NoAction.metadata]

\* JWT verification flow: blacklist, signature, expiration, session
VerifyToken(token) == IF token.state = "valid" THEN "OK" ELSE "TOKEN_EXPIRED"

\* RBAC: the permission list of the JWT payload holds the endpoint's permission
HasPermission(token, permission) == permission \in token.permissions

\* the transaction of a request that cleared the pipeline
RequestTx(id, req, points, before) ==
    [NoTx EXCEPT !.id = id, !.userId = req.token.userId, !.delta = points,
                 !.attempt = 1, !.before = before,
                 !.newScore = NewScore(before, points)]

InitPipe ==
    /\ gwSet = [k \in GatewayKeys |-> {}]
    /\ ppc = "idle"
    /\ preq = NoPipelineRequest
    /\ ptrace = <<>>
    /\ pcount = 0
    /\ cacheDeleted = {}
    /\ published = {}
    /\ pipeLog = {}

\* the tasks the server holds when the requests come in
InitEngTasks ==
    /\ tasks = [t \in TaskIds |->
                   [userId |-> "u1", completed |-> (t = "t2")]]
    /\ userLevel = [u \in Users |-> 1]
    /\ engIn = NoAction
    /\ engAlt = NoAction
    /\ engOut = NoOutcome
    /\ engOutAlt = NoOutcome

Accepted(gate, check) == Append(ptrace, [gate |-> gate, check |-> check])

\* a middleware rejects the request: the response goes out, nothing follows
Reject(gate, code) ==
    /\ pipeLog' = pipeLog \cup {[id |-> pcount, result |-> code, gate |-> gate,
                                 trace |-> ptrace]}
    /\ ppc' = "idle"
    /\ preq' = NoPipelineRequest
    /\ ptrace' = <<>>

\* the client's request enters the gateway
Receive ==
    /\ ppc = "idle"
    /\ pcount < MaxRequests
    /\ \E req \in PipelineRequests(now) : preq' = req
    /\ pcount' = pcount + 1
    /\ ppc' = "rateLimit12"
    /\ ptrace' = <<>>
    /\ UNCHANGED <<gwSet, cacheDeleted, published, pipeLog, nonceStore, tasks,
                   dbVars, exceptPipe>>

\* 1. Rate Limiting (Tier 1-2)
RateLimit12 ==
    /\ ppc = "rateLimit12"
    /\ LET key == UserKey(preq.token.userId)
           set == Purge(gwSet[key], now)
       IN IF Exceeded(ZCard(set))
             THEN /\ Reject("RateLimiter", "RATE_LIMIT_EXCEEDED")
                  /\ gwSet' = [gwSet EXCEPT ![key] = set]
             ELSE /\ gwSet' = [gwSet EXCEPT ![key] = ZAdd(set, now, pcount)]
                  /\ ppc' = "authenticate"
                  /\ ptrace' = Accepted("RateLimiter", "tier 1-2")
                  /\ UNCHANGED <<preq, pipeLog>>
    /\ UNCHANGED <<pcount, cacheDeleted, published, nonceStore, tasks, dbVars, exceptPipe>>

\* 2. JWT Authentication
Authenticate ==
    /\ ppc = "authenticate"
    /\ IF VerifyToken(preq.token) # "OK"
          THEN Reject("AuthGate", VerifyToken(preq.token))
          ELSE /\ ppc' = "rateLimit34"
               /\ ptrace' = Accepted("AuthGate", "authenticate")
               /\ UNCHANGED <<preq, pipeLog>>
    /\ UNCHANGED <<gwSet, pcount, cacheDeleted, published, nonceStore, tasks,
                   dbVars, exceptPipe>>

\* 3. Rate Limiting (Tier 3-4)
RateLimit34 ==
    /\ ppc = "rateLimit34"
    /\ LET key == ActionKey(preq.actionType, preq.token.userId)
           set == Purge(gwSet[key], now)
       IN IF ZCard(set) >= ActionLimits[preq.actionType]
             THEN /\ Reject("RateLimiter", "RATE_LIMIT_EXCEEDED")
                  /\ gwSet' = [gwSet EXCEPT ![key] = set]
             ELSE /\ gwSet' = [gwSet EXCEPT ![key] = ZAdd(set, now, pcount)]
                  /\ ppc' = "signing"
                  /\ ptrace' = Accepted("RateLimiter", "tier 3-4")
                  /\ UNCHANGED <<preq, pipeLog>>
    /\ UNCHANGED <<pcount, cacheDeleted, published, nonceStore, tasks, dbVars, exceptPipe>>

\* 4. Request Signing
VerifySigning ==
    /\ ppc = "signing"
    /\ IF VerifyResult(preq.signed, nonceStore, now) # "OK"
          THEN /\ Reject("SignatureVerifier", VerifyResult(preq.signed, nonceStore, now))
               /\ UNCHANGED nonceStore
          ELSE /\ nonceStore' = StoreNonce(nonceStore, preq.signed.nonce, now)
               /\ ppc' = "authorize"
               /\ ptrace' = Accepted("SignatureVerifier", "signature")
               /\ UNCHANGED <<preq, pipeLog>>
    /\ UNCHANGED <<gwSet, pcount, cacheDeleted, published, tasks, dbVars, exceptPipe>>

\* 5. RBAC Permission Check
Authorize ==
    /\ ppc = "authorize"
    /\ IF ~HasPermission(preq.token, "EXECUTE_ACTION")
          THEN Reject("AuthGate", "FORBIDDEN")
          ELSE /\ ppc' = "businessLogic"
               /\ ptrace' = Accepted("AuthGate", "authorize")
               /\ UNCHANGED <<preq, pipeLog>>
    /\ UNCHANGED <<gwSet, pcount, cacheDeleted, published, nonceStore, tasks,
                   dbVars, exceptPipe>>

\* 6. Business Logic: the server validates the preconditions and calculates
\* the score
BusinessLogic ==
    /\ ppc = "businessLogic"
    /\ LET out == processAction(preq.token.userId, preq.actionType, preq.metadata,
                                tasks, userLevel)
       IN IF out.status # "OK"
             THEN Reject("ScoreEngine", out.status)
             ELSE /\ ppc' = "update"
                  /\ ptrace' = Accepted("ScoreEngine", "processAction")
                  /\ UNCHANGED <<preq, pipeLog>>
    /\ UNCHANGED <<gwSet, pcount, cacheDeleted, published, nonceStore, tasks,
                   dbVars, exceptPipe>>

\* Update Database: the score transaction of the request commits
UpdateDatabase ==
    /\ ppc = "update"
    /\ LET out == processAction(preq.token.userId, preq.actionType, preq.metadata,
                                tasks, userLevel)
           t == RequestTx(pcount, preq, out.points, current_score[preq.token.userId])
       IN /\ current_score' = [current_score EXCEPT ![t.userId] = t.newScore]
          /\ score_history' = Append(score_history, HistoryRow(t))
          /\ actions' = actions \cup {ActionRow(t)}
    /\ pipeLog' = pipeLog \cup {[id |-> pcount, result |-> "OK", gate |-> "none",
                                 trace |-> ptrace]}
    /\ ppc' = "invalidate"
    /\ UNCHANGED <<gwSet, preq, ptrace, pcount, cacheDeleted, published, nonceStore,
                   tasks, exceptPipe>>

\* Invalidate User Cache, Invalidate Scoreboard Cache
InvalidateCache ==
    /\ ppc = "invalidate"
    /\ cacheDeleted' = cacheDeleted
           \cup {[key |-> <<"user:score:", preq.token.userId>>, id |-> pcount],
                 [key |-> <<"scoreboard", "">>, id |-> pcount]}
    /\ ppc' = "broadcast"
    /\ UNCHANGED <<gwSet, preq, ptrace, pcount, published, pipeLog, nonceStore,
                   tasks, dbVars, exceptPipe>>

\* Broadcast Score Update
Broadcast ==
    /\ ppc = "broadcast"
    /\ published' = published
           \cup {[userId |-> preq.token.userId,
                  newScore |-> current_score[preq.token.userId], id |-> pcount]}
    /\ ppc' = "idle"
    /\ preq' = NoPipelineRequest
    /\ ptrace' = <<>>
    /\ UNCHANGED <<gwSet, pcount, cacheDeleted, pipeLog, nonceStore, tasks,
                   dbVars, exceptPipe>>

NextPipe ==
    \/ Receive
    \/ RateLimit12
    \/ Authenticate
    \/ RateLimit34
    \/ VerifySigning
    \/ Authorize
    \/ BusinessLogic
    \/ UpdateDatabase
    \/ InvalidateCache
    \/ Broadcast

-----------------------------------------------------------------------------
(* Action processing queue: README, Bull queue and job processor *)

MaxJobs == 2

\* what updateUserScore may throw; FLOW_DIAGRAM section 8 tells the transient
\* database errors from the others
DatabaseErrors == {"STORE_UNAVAILABLE", "CONCURRENT_MODIFICATION", "DATABASE_ERROR"}
Transient(error) == error \in {"STORE_UNAVAILABLE", "CONCURRENT_MODIFICATION"}

\* the data of a job: { userId, actionType, actionData }
JobData == [userId : Users, actionType : {"COMPLETE_TASK"},
            actionData : [taskId : TaskIds, completionTime : {120},
                          pointsRequested : {0}]]
NoJob == [userId |-> "none", actionType |-> "none", actionData |-> NoAction.metadata]

InitJob ==
    /\ jpc = "none"
    /\ jdata = NoJob
    /\ attemptsMade = 0
    /\ jtrail = <<>>
    /\ jcount = 0

\* defaultJobOptions.attempts: a job whose processor threw waits for its next
\* attempt until `attempts` attempts were made, whatever the error was
RetryOrFail(made) == IF made < attempts THEN "waiting" ELSE "failed"

\* catch (error) { throw new Error(...) }: the attempt fails
Throw(error) ==
    /\ jtrail' = Append(jtrail, error)
    /\ attemptsMade' = attemptsMade + 1
    /\ jpc' = RetryOrFail(attemptsMade + 1)

\* actionQueue.add('processAction', data)
AddJob ==
    /\ jpc \in {"none", "completed", "failed"}
    /\ jcount < MaxJobs
    /\ \E d \in JobData : jdata' = d
    /\ jcount' = jcount + 1
    /\ attemptsMade' = 0
    /\ jtrail' = <<>>
    /\ jpc' = "waiting"
    /\ UNCHANGED <<dbVars, published, exceptJob>>

\* an attempt starts: await validateAction(userId, actionType, actionData)
ValidateAction ==
    /\ jpc = "waiting"
    /\ LET out == processAction(jdata.userId, jdata.actionType, jdata.actionData,
                                tasks, userLevel)
       IN IF out.status # "OK"
             THEN Throw(out.status)
             ELSE /\ jpc' = "update"
                  /\ UNCHANGED <<attemptsMade, jtrail>>
    /\ UNCHANGED <<jdata, jcount, dbVars, published, exceptJob>>

\* calculateScore, then await updateUserScore(...): the transaction commits
UpdateUserScoreOk ==
    /\ jpc = "update"
    /\ LET out == processAction(jdata.userId, jdata.actionType, jdata.actionData,
                                tasks, userLevel)
           t == [NoTx EXCEPT !.id = Len(score_history) + 1, !.userId = jdata.userId,
                     !.delta = out.points, !.attempt = attemptsMade + 1,
                     !.before = current_score[jdata.userId],
                     !.newScore = NewScore(current_score[jdata.userId], out.points)]
       IN /\ current_score' = [current_score EXCEPT ![t.userId] = t.newScore]
          /\ score_history' = Append(score_history, HistoryRow(t))
          /\ actions' = actions \cup {ActionRow(t)}
    /\ jpc' = "broadcast"
    /\ UNCHANGED <<jdata, jcount, attemptsMade, jtrail, published, exceptJob>>

\* the processor announcing the score before the transaction is through
UpdateUserScoreFailsAnnounced ==
    /\ jpc = "update"
    /\ \E e \in DatabaseErrors : Throw(e)
    /\ published' = published
           \cup {[userId |-> jdata.userId, newScore |-> current_score[jdata.userId],
                  id |-> Len(score_history) + 1]}
    /\ UNCHANGED <<jdata, jcount, dbVars, exceptJob>>

\* await updateUserScore(...) throws: the transaction rolled back
UpdateUserScoreFails ==
    /\ jpc = "update"
    /\ \E e \in DatabaseErrors : Throw(e)
    /\ UNCHANGED <<jdata, jcount, dbVars, published, exceptJob>>

\* await broadcastScoreUpdate(result); return result
BroadcastScoreUpdateOk ==
    /\ jpc = "broadcast"
    /\ published' = published
           \cup {[userId |-> jdata.userId, newScore |-> current_score[jdata.userId],
                  id |-> Len(score_history)]}
    /\ jpc' = "completed"
    /\ UNCHANGED <<jdata, jcount, attemptsMade, jtrail, dbVars, exceptJob>>

\* await broadcastScoreUpdate(result) throws
BroadcastScoreUpdateFails ==
    /\ jpc = "broadcast"
    /\ Throw("BROADCAST_FAILED")
    /\ UNCHANGED <<jdata, jcount, dbVars, published, exceptJob>>

NextJob ==
    \/ AddJob
    \/ ValidateAction
    \/ UpdateUserScoreOk
    \/ UpdateUserScoreFails
    \/ BroadcastScoreUpdateOk
    \/ BroadcastScoreUpdateFails

-----------------------------------------------------------------------------
(* Message queue: README, Redis Pub/Sub between Action Service and the
   WebSocket (Score) service instances *)

NumInstances == 2
MaxEvents == 2
MaxUsers == 2
MaxNews == 1
MaxNewsTime == 3
MaxPermCalls == 2
MaxArticles == 3
MaxLimit == 2
MaxPage == 3
Instances == 1..NumInstances

InitBc ==
    /\ wsState = [i \in Instances |-> "subscribed"]
    /\ inflight = [i \in Instances |-> {}]
    /\ received = [i \in Instances |-> {}]
    /\ evCount = 0

\* the clients Redis sends a PUBLISH to: those subscribed to the channel at
\* that moment; Redis Pub/Sub keeps no message for the others
Receivers(state) == { i \in Instances : state[i] = "subscribed" }

\* (1) PUBLISH score_updated {userId, newScore, rank}
Publish ==
    /\ evCount < MaxEvents
    /\ evCount' = evCount + 1
    /\ inflight' = [i \in Instances |->
                       IF i \in Receivers(wsState)
                          THEN inflight[i] \cup {evCount + 1} ELSE inflight[i]]
    /\ UNCHANGED <<wsState, received, exceptBc>>

\* (2) Forward event, (3) Broadcast to WS clients
ForwardEvent(i) ==
    /\ wsState[i] = "subscribed"
    /\ \E e \in inflight[i] :
        /\ inflight' = [inflight EXCEPT ![i] = inflight[i] \ {e}]
        /\ received' = [received EXCEPT ![i] = received[i] \cup {e}]
    /\ UNCHANGED <<wsState, evCount, exceptBc>>

\* a WebSocket service instance restarts: its connection to Redis closes
Restart(i) ==
    /\ wsState[i] = "subscribed"
    /\ wsState' = [wsState EXCEPT ![i] = "restarting"]
    /\ inflight' = [inflight EXCEPT ![i] = {}]
    /\ UNCHANGED <<received, evCount, exceptBc>>

\* the instance is up again: Subscribe "score_updated"
Subscribe(i) ==
    /\ wsState[i] = "restarting"
    /\ wsState' = [wsState EXCEPT ![i] = "subscribed"]
    /\ UNCHANGED <<inflight, received, evCount, exceptBc>>

NextBc ==
    \/ Publish
    \/ \E i \in Instances : ForwardEvent(i)
    \/ \E i \in Instances : Restart(i)
    \/ \E i \in Instances : Subscribe(i)

-----------------------------------------------------------------------------
(* News API (problem5): users, JWT authentication and the auth controller *)

Emails == {"a@x.com", "A@x.com", "b@x.com"}
Passwords == {"pw1", "pw2"}
USER_ROLES == [ADMIN |-> "admin", EDITOR |-> "editor", VIEWER |-> "viewer"]
ALL_ROLES == {USER_ROLES.ADMIN, USER_ROLES.EDITOR, USER_ROLES.VIEWER}
DEFAULT_ROLE == USER_ROLES.VIEWER
NoRole == ""

\* User schema, email: lowercase
Lower(email) == IF email = "A@x.com" THEN "a@x.com" ELSE email

\* User pre-save hook: the stored password is a hash of the plain one
Hash(password) == <<"bcrypt", password>>

\* user.comparePassword(candidate)
comparePassword(user, candidate) == user.password = Hash(candidate)

\* User.create: the document as stored; isActive defaults to true
UserCreate(email, password, role, isActive) ==
    [email |-> Lower(email), password |-> Hash(password), role |-> role,
     isActive |-> isActive]

\* User.findOne({ email }): the _id of the user with that email, 0 when none
UserFindOne(coll, email) ==
    IF \E i \in 1..Len(coll) : coll[i].email = Lower(email)
    THEN CHOOSE i \in 1..Len(coll) : coll[i].email = Lower(email)
    ELSE 0

\* User.findById(id): 0 when no such document
UserFindById(coll, id) == IF id \in 1..Len(coll) THEN id ELSE 0

NoToken == [id |-> 0, email |-> "", role |-> NoRole, sig |-> "none"]

generateToken(userId, email, role) ==
    [id |-> userId, email |-> email, role |-> role, sig |-> "server"]

\* jwt.verify: the payload of a token signed with JWT_SECRET and not expired,
\* null (NoToken) otherwise
verifyToken(token) == IF token.sig = "server" THEN token ELSE NoToken

NoAuthorization == [scheme |-> "none", token |-> NoToken]
Bearer(token) == [scheme |-> "Bearer", token |-> token]

\* the Authorization headers a client can send: none, a token the server
\* issued, the same token expired, or one signed with another secret
AuthHeaders(issued) ==
    {NoAuthorization}
        \cup {Bearer(t) : t \in issued}
        \cup {Bearer([t EXCEPT !.sig = "expired"]) : t \in issued}
        \cup {Bearer([id |-> 1, email |-> "a@x.com", role |-> USER_ROLES.ADMIN, sig |-> "forged"])}

NoReqUser == [id |-> 0, email |-> "", role |-> NoRole]

\* authenticate: status 0 stands for next() without an error
authenticate(header, coll) ==
    IF header.scheme # "Bearer"
    THEN [status |-> 401, user |-> NoReqUser]
    ELSE LET decoded == verifyToken(header.token)
             user == UserFindById(coll, decoded.id)
         IN  IF decoded = NoToken
             THEN [status |-> 401, user |-> NoReqUser]
             ELSE IF user = 0 \/ ~coll[user].isActive
             THEN [status |-> 401, user |-> NoReqUser]
             ELSE [status |-> 0,
                   user |-> [id |-> decoded.id, email |-> decoded.email,
                             role |-> decoded.role]]

\* authorize without the role test: every authenticated user passes
authorizeAnyRole(roles, reqUser) ==
    IF reqUser = NoReqUser THEN 401 ELSE 0

\* authorize(...roles)
authorize(roles, reqUser) ==
    IF reqUser = NoReqUser THEN 401
    ELSE IF reqUser.role \notin roles THEN 403
    ELSE 0

NoAuthLast ==
    [op |-> "none", email |-> "", password |-> "", newPassword |-> "",
     header |-> NoAuthorization, usersBefore |-> <<>>, tokensBefore |-> {}]
NoAuthResp == [status |-> 0, message |-> "", token |-> NoToken]

InitAuth ==
    /\ users = <<>>
    /\ tokens = {}
    /\ authLast = NoAuthLast
    /\ authResp = NoAuthResp

\* the collection may already hold a user created directly (as the tests
\* do), active or not, with a token generated for it
InitAuthAny ==
    /\ \E e \in {"a@x.com", "b@x.com"}, p \in Passwords, r \in ALL_ROLES, a \in BOOLEAN,
          n \in 0..1 :
          /\ users = IF n = 0 THEN <<>> ELSE <<UserCreate(e, p, r, a)>>
          /\ tokens = IF n = 0 THEN {} ELSE {generateToken(1, e, r)}
    /\ authLast = NoAuthLast
    /\ authResp = NoAuthResp

\* login without the test of isActive
LoginResultAnyAccount(coll, email, password) ==
    LET user == UserFindOne(coll, email)
    IN  IF user = 0 \/ ~comparePassword(coll[user], password)
        THEN [status |-> 401, message |-> "Invalid email or password", token |-> NoToken]
        ELSE [status |-> 200, message |-> "Login successful",
              token |-> generateToken(user, coll[user].email, coll[user].role)]

\* what login answers on a collection: status, message, token
LoginResult(coll, email, password) ==
    LET user == UserFindOne(coll, email)
    IN  IF user = 0
        THEN [status |-> 401, message |-> "Invalid email or password", token |-> NoToken]
        ELSE IF ~coll[user].isActive
        THEN [status |-> 403, message |-> "Account is deactivated. Please contact support.",
              token |-> NoToken]
        ELSE IF ~comparePassword(coll[user], password)
        THEN [status |-> 401, message |-> "Invalid email or password", token |-> NoToken]
        ELSE [status |-> 200, message |-> "Login successful",
              token |-> generateToken(user, coll[user].email, coll[user].role)]

\* register without the check for an existing user
EmailRegisteredNever(coll, email) == FALSE

\* register's check for an existing user
EmailRegistered(coll, email) == UserFindOne(coll, email) # 0

\* POST /api/auth/register
Register(email, password, role) ==
    /\ EmailRegistered(users, email) \/ Len(users) < MaxUsers
    /\ authLast' = [NoAuthLast EXCEPT !.op = "register", !.email = email,
                                      !.password = password,
                                      !.usersBefore = users, !.tokensBefore = tokens]
    /\ IF EmailRegistered(users, email)
       THEN /\ authResp' = [status |-> 409, message |-> "Email already registered",
                            token |-> NoToken]
            /\ UNCHANGED <<users, tokens>>
       ELSE LET user == UserCreate(email, password,
                                   IF role = NoRole THEN DEFAULT_ROLE ELSE role, TRUE)
                token == generateToken(Len(users) + 1, user.email, user.role)
            IN  /\ users' = Append(users, user)
                /\ tokens' = tokens \cup {token}
                /\ authResp' = [status |-> 201, message |-> "User registered successfully",
                                token |-> token]
    /\ UNCHANGED exceptAuth

\* POST /api/auth/login
Login(email, password) ==
    /\ authLast' = [NoAuthLast EXCEPT !.op = "login", !.email = email,
                                      !.password = password,
                                      !.usersBefore = users, !.tokensBefore = tokens]
    /\ authResp' = LoginResult(users, email, password)
    /\ tokens' = IF authResp'.status = 200 THEN tokens \cup {authResp'.token} ELSE tokens
    /\ UNCHANGED users
    /\ UNCHANGED exceptAuth

\* changePassword without the assignment of the new password
SavedPasswordKept(user, newPassword) == user

\* the stored password after changePassword's user.save()
SavedPassword(user, newPassword) == [user EXCEPT !.password = Hash(newPassword)]

\* POST /api/auth/change-password: authenticate, then the controller
ChangePassword(header, currentPassword, newPassword) ==
    LET auth == authenticate(header, users)
        user == UserFindById(users, auth.user.id)
    IN  /\ authLast' = [NoAuthLast EXCEPT !.op = "changePassword",
                                          !.email = auth.user.email,
                                          !.password = currentPassword,
                                          !.newPassword = newPassword,
                                          !.header = header,
                                          !.usersBefore = users, !.tokensBefore = tokens]
        /\ IF auth.status # 0
           THEN /\ authResp' = [status |-> auth.status, message |-> "Authentication failed",
                                token |-> NoToken]
                /\ UNCHANGED users
           ELSE IF user = 0
           THEN /\ authResp' = [status |-> 404, message |-> "User not found",
                                token |-> NoToken]
                /\ UNCHANGED users
           ELSE IF ~comparePassword(users[user], currentPassword)
           THEN /\ authResp' = [status |-> 401, message |-> "Current password is incorrect",
                                token |-> NoToken]
                /\ UNCHANGED users
           ELSE /\ users' = [users EXCEPT ![user] = SavedPassword(users[user], newPassword)]
                /\ authResp' = [status |-> 200, message |-> "Password changed successfully",
                                token |-> NoToken]
        /\ UNCHANGED tokens
        /\ UNCHANGED exceptAuth

NextAuth ==
    \/ \E e \in Emails, p \in Passwords, r \in ALL_ROLES \cup {NoRole} : Register(e, p, r)
    \/ \E e \in Emails, p \in Passwords : Login(e, p)
    \/ \E h \in AuthHeaders(tokens), c \in Passwords, n \in Passwords :
          ChangePassword(h, c, n)

-----------------------------------------------------------------------------
(* News API (problem5): role permissions, constants/roles *)

PermissionNames == {"create", "read", "update", "delete", "manage_users"}

ROLE_PERMISSIONS(role) ==
    CASE role = USER_ROLES.ADMIN -> {"create", "read", "update", "delete", "manage_users"}
      [] role = USER_ROLES.EDITOR -> {"create", "read", "update", "delete"}
      [] role = USER_ROLES.VIEWER -> {"read"}
      [] OTHER -> {}

hasPermission(role, permission) == permission \in ROLE_PERMISSIONS(role)

\* the roles each /api/news route admits: authorize(...) of the guarded
\* routes, everyone on the routes without authenticate
RouteRoles(action) ==
    CASE action = "create" -> {USER_ROLES.ADMIN, USER_ROLES.EDITOR}
      [] action = "update" -> {USER_ROLES.ADMIN, USER_ROLES.EDITOR}
      [] action = "delete" -> {USER_ROLES.ADMIN}
      [] OTHER -> ALL_ROLES

InitPerm == permLog = <<>>

\* a permission check: what hasPermission answers and what the route admits
CheckPermission(role, permission) ==
    /\ Len(permLog) < MaxPermCalls
    /\ permLog' = Append(permLog,
                         [role |-> role, permission |-> permission,
                          granted |-> hasPermission(role, permission),
                          admitted |-> role \in RouteRoles(permission)])
    /\ UNCHANGED exceptPerm

NextPerm == \E r \in ALL_ROLES, p \in PermissionNames : CheckPermission(r, p)

-----------------------------------------------------------------------------
(* News API (problem5): the /api/news routes and the news controller *)

NewsStatuses == {"draft", "published", "archived"}
NoStatus == ""
NoDate == 0        \* publishedAt absent
ClientDate == 1    \* an ISO 8601 date sent by the client
BadDate == -1      \* a publishedAt that is not an ISO 8601 date (null, "", text)
FirstInstant == 2  \* the server's clock starts after ClientDate

\* a deleted document keeps its position, so that _ids stay stable
Deleted == [status |-> "deleted", publishedAt |-> NoDate]

\* request bodies: status and publishedAt, absent, valid or invalid
NewsBodies ==
    [status : NewsStatuses \cup {NoStatus, "bogus"},
     publishedAt : {NoDate, ClientDate, BadDate}]
NoBody == [status |-> NoStatus, publishedAt |-> NoDate]

\* createNewsValidation and updateNewsValidation on the two fields, followed
\* by handleValidationErrors: an optional field is checked when present
NewsValidation(body) ==
    /\ body.status \in NewsStatuses \cup {NoStatus}
    /\ body.publishedAt # BadDate

\* News.findById(id): 0 when there is no such document
NewsFindById(coll, id) ==
    IF id \in 1..Len(coll) /\ coll[id] # Deleted THEN id ELSE 0

\* createNews: the document News.create stores (status defaults to draft)
CreatedNews(body, at) ==
    [status |-> IF body.status = NoStatus THEN "draft" ELSE body.status,
     publishedAt |-> IF body.status = "published" /\ body.publishedAt = NoDate
                     THEN at ELSE body.publishedAt]

\* updateNews without the automatic publishedAt
UpdateDataUnstamped(existing, body, at) == body

\* updateNews: the updateData handed to findByIdAndUpdate
UpdateData(existing, body, at) ==
    IF body.status = "published" /\ body.publishedAt = NoDate
       /\ existing.publishedAt = NoDate
    THEN [body EXCEPT !.publishedAt = at]
    ELSE body

\* findByIdAndUpdate: the fields present in updateData replace the stored ones
UpdatedNews(existing, updateData) ==
    [status |-> IF updateData.status = NoStatus THEN existing.status
                ELSE updateData.status,
     publishedAt |-> IF updateData.publishedAt = NoDate THEN existing.publishedAt
                     ELSE updateData.publishedAt]

\* authenticate, then authorize(...roles): 0 when both call next()
RouteGuard(roles, header, coll) ==
    LET auth == authenticate(header, coll)
    IN  IF auth.status # 0 THEN auth.status ELSE authorize(roles, auth.user)

NoNewsLast ==
    [op |-> "none", header |-> NoAuthorization, id |-> 0, body |-> NoBody,
     status |-> 0, ran |-> FALSE, before |-> <<>>, at |-> 0]

InitNews ==
    /\ news = <<>>
    /\ newsClock = FirstInstant
    /\ newsLast = NoNewsLast

\* the users of the news API: one active user of each role, a deactivated
\* editor, and a token whose user has been removed since
NewsUsers ==
    <<UserCreate("a@x.com", "pw1", USER_ROLES.ADMIN, TRUE),
      UserCreate("b@x.com", "pw1", USER_ROLES.EDITOR, TRUE),
      UserCreate("c@x.com", "pw1", USER_ROLES.VIEWER, TRUE),
      UserCreate("d@x.com", "pw1", USER_ROLES.EDITOR, FALSE)>>

InitNewsUsers ==
    /\ users = NewsUsers
    /\ tokens = {generateToken(i, NewsUsers[i].email, NewsUsers[i].role) : i \in 1..4}
                    \cup {generateToken(5, "e@x.com", USER_ROLES.ADMIN)}
    /\ authLast = NoAuthLast
    /\ authResp = NoAuthResp

Logged(op, header, id, body, status, ran) ==
    [op |-> op, header |-> header, id |-> id, body |-> body, status |-> status,
     ran |-> ran, before |-> news, at |-> newsClock]

\* POST /api/news
CreateNewsReq(header, body) ==
    LET guard == RouteGuard(RouteRoles("create"), header, users)
    IN  /\ Len(news) < MaxNews
        /\ IF guard # 0
           THEN /\ newsLast' = Logged("create", header, 0, body, guard, FALSE)
                /\ UNCHANGED news
           ELSE IF ~NewsValidation(body)
           THEN /\ newsLast' = Logged("create", header, 0, body, 400, FALSE)
                /\ UNCHANGED news
           ELSE /\ news' = Append(news, CreatedNews(body, newsClock))
                /\ newsLast' = Logged("create", header, Len(news) + 1, body, 201, TRUE)
        /\ UNCHANGED newsClock
        /\ UNCHANGED exceptNews

\* PUT /api/news/:id
UpdateNewsReq(header, id, body) ==
    LET guard == RouteGuard(RouteRoles("update"), header, users)
        existing == NewsFindById(news, id)
    IN  /\ IF guard # 0
           THEN /\ newsLast' = Logged("update", header, id, body, guard, FALSE)
                /\ UNCHANGED news
           ELSE IF ~NewsValidation(body)
           THEN /\ newsLast' = Logged("update", header, id, body, 400, FALSE)
                /\ UNCHANGED news
           ELSE IF existing = 0
           THEN /\ newsLast' = Logged("update", header, id, body, 404, TRUE)
                /\ UNCHANGED news
           ELSE /\ news' = [news EXCEPT ![id] =
                               UpdatedNews(news[id], UpdateData(news[id], body, newsClock))]
                /\ newsLast' = Logged("update", header, id, body, 200, TRUE)
        /\ UNCHANGED newsClock
        /\ UNCHANGED exceptNews

\* DELETE /api/news/:id
DeleteNewsReq(header, id) ==
    LET guard == RouteGuard(RouteRoles("delete"), header, users)
    IN  /\ IF guard # 0
           THEN /\ newsLast' = Logged("delete", header, id, NoBody, guard, FALSE)
                /\ UNCHANGED news
           ELSE IF NewsFindById(news, id) = 0
           THEN /\ newsLast' = Logged("delete", header, id, NoBody, 404, TRUE)
                /\ UNCHANGED news
           ELSE /\ news' = [news EXCEPT ![id] = Deleted]
                /\ newsLast' = Logged("delete", header, id, NoBody, 200, TRUE)
        /\ UNCHANGED newsClock
        /\ UNCHANGED exceptNews

\* GET /api/news/:id: no authentication middleware on the route
GetNewsReq(header, id) ==
    /\ newsLast' = Logged("get", header, id, NoBody,
                          IF NewsFindById(news, id) = 0 THEN 404 ELSE 200, TRUE)
    /\ UNCHANGED <<news, newsClock>>
    /\ UNCHANGED exceptNews

\* GET /api/news: optionalAuth never rejects
ListNewsReq(header) ==
    /\ newsLast' = Logged("list", header, 0, NoBody, 200, TRUE)
    /\ UNCHANGED <<news, newsClock>>
    /\ UNCHANGED exceptNews

\* time passes
NewsTick ==
    /\ newsClock < MaxNewsTime
    /\ newsClock' = newsClock + 1
    /\ UNCHANGED <<news, newsLast>>
    /\ UNCHANGED exceptNews

\* the headers tried on the news routes: none, every token the server issued,
\* one of them expired, and one signed with another secret
NewsHeaders ==
    {h \in AuthHeaders(tokens) : h.token.sig = "expired" => h.token.id = 1}

\* an admin's header, for the requests that are to reach the controller
AdminHeader == Bearer(generateToken(1, NewsUsers[1].email, NewsUsers[1].role))

\* the bodies tried on the guarded routes: one that publishes, one that sets
\* a date on a draft, one that fails validation
GuardedBodies ==
    {[status |-> "published", publishedAt |-> NoDate],
     [status |-> "draft", publishedAt |-> ClientDate],
     [status |-> "bogus", publishedAt |-> NoDate]}

\* every client against the routes
NextNews ==
    \/ \E h \in NewsHeaders, b \in GuardedBodies : CreateNewsReq(h, b)
    \/ \E h \in NewsHeaders, i \in 1..MaxNews, b \in GuardedBodies :
          UpdateNewsReq(h, i, b)
    \/ \E h \in NewsHeaders, i \in 1..MaxNews : DeleteNewsReq(h, i)
    \/ \E h \in NewsHeaders, i \in 1..MaxNews : GetNewsReq(h, i)
    \/ \E h \in NewsHeaders : ListNewsReq(h)
    \/ NewsTick

\* an admin sending every body to the controller
NextNewsCtl ==
    \/ \E b \in NewsBodies : CreateNewsReq(AdminHeader, b)
    \/ \E i \in 1..MaxNews, b \in NewsBodies : UpdateNewsReq(AdminHeader, i, b)
    \/ \E i \in 1..MaxNews : DeleteNewsReq(AdminHeader, i)
    \/ NewsTick

\* the role of a stored user is changed in the users collection; tokens
\* issued before stay as they are
ChangeStoredRole(id, role) ==
    /\ id \in 1..Len(users)
    /\ users[id].role # role
    /\ users' = [users EXCEPT ![id].role = role]
    /\ newsLast' = [NoNewsLast EXCEPT !.op = "role", !.id = id]
    /\ UNCHANGED <<tokens, authLast, authResp, news, newsClock>>
    /\ UNCHANGED <<sigVars, sigcVars, rateVars, ratecVars, engVars, ledVars, pipeVars,
                   jobVars, bcVars, permVars, listVars, sumVars, lbVars, adVars, otVars,
                   ucVars>>

\* the guarded routes while the role of the first user changes and the user
\* logs in again
NextRoles ==
    \/ \E h \in NewsHeaders : CreateNewsReq(h, [status |-> "published", publishedAt |-> NoDate])
    \/ \E h \in NewsHeaders, i \in 1..MaxNews : DeleteNewsReq(h, i)
    \/ \E role \in ALL_ROLES : ChangeStoredRole(1, role)
    \/ Login(NewsUsers[1].email, "pw1")

-----------------------------------------------------------------------------
(* News API (problem5): NewsController.listNews *)

SortKeys == {1, 2}
Categories == {"tech", "business"}
NoCategory == ""

NoListResponse ==
    [asked |-> FALSE, data |-> <<>>, totalItems |-> 0, totalPages |-> 0,
     hasNextPage |-> FALSE, hasPrevPage |-> FALSE]

\* a collection of up to MaxArticles documents and one query; the pages of
\* the query are then asked for in any order
InitList ==
    /\ \E n \in 0..MaxArticles :
          listColl \in [1..n -> [key : SortKeys, category : Categories]]
    /\ listQuery \in [limit : 1..MaxLimit, sortOrder : {"asc", "desc"},
                      category : {NoCategory, "tech"}]
    /\ listPages = [p \in 1..MaxPage |-> NoListResponse]

\* News.find(filters) / News.countDocuments(filters): the matching _ids
Matches(coll, filters) ==
    {i \in DOMAIN coll : filters.category = NoCategory \/ coll[i].category = filters.category}

\* .sort(sort): the orders MongoDB may return the matching documents in;
\* documents with equal sort keys come in any order
SortedOrders(coll, ids, sortOrder) ==
    {s \in [1..Cardinality(ids) -> ids] :
        /\ \A a, b \in 1..Cardinality(ids) : a # b => s[a] # s[b]
        /\ \A a, b \in 1..Cardinality(ids) :
              a < b => IF sortOrder = "asc" THEN coll[s[a]].key <= coll[s[b]].key
                       ELSE coll[s[a]].key >= coll[s[b]].key}

Min(a, b) == IF a < b THEN a ELSE b

\* .skip(skip).limit(limit)
SkipLimit(s, skip, lim) == SubSeq(s, skip + 1, Min(skip + lim, Len(s)))

\* Math.ceil(totalItems / limit)
Ceil(totalItems, lim) == (totalItems + lim - 1) \div lim

\* GET /api/news?page=..&limit=..&sortBy=..&sortOrder=..&category=..
ListNews(page) ==
    LET lim == listQuery.limit
        skip == (page - 1) * lim
        ids == Matches(listColl, listQuery)
        totalItems == Cardinality(ids)
        totalPages == Ceil(totalItems, lim)
    IN  /\ \E s \in SortedOrders(listColl, ids, listQuery.sortOrder) :
              listPages' = [listPages EXCEPT ![page] =
                  [asked |-> TRUE, data |-> SkipLimit(s, skip, lim),
                   totalItems |-> totalItems, totalPages |-> totalPages,
                   hasNextPage |-> page < totalPages, hasPrevPage |-> page > 1]]
        /\ UNCHANGED <<listColl, listQuery>>
        /\ UNCHANGED exceptList

NextList == \E p \in 1..MaxPage : ListNews(p)

\* the groups added after the pipeline start empty
-----------------------------------------------------------------------------
(* Three ways to sum to n (problem4) *)

MAX_SAFE_FORMULA_INPUT == 134217727
MAX_SAFE_RECURSIVE_INPUT == 10000
NoMax == -1    \* maxValue undefined

\* call stack sizes, in calls: V8's as measured, and the upper end of the
\* typical range
V8StackSize == 8874
LargeStackSize == 15000
StackSizes == {V8StackSize, LargeStackSize}

\* arguments: integers around the limits, and the invalid inputs of
\* testEdgeCases (-1, 1.5, NaN, Infinity; the last three are no integers)
SumInputs ==
    [isInteger : {TRUE}, value : {-1, 0, 1, 5, 100, 10000, 10001}]
        \cup [isInteger : {FALSE}, value : {1}]

NoResult == [kind |-> "none", value |-> 0]
Returned(v) == [kind |-> "value", value |-> v]
Thrown(e) == [kind |-> e, value |-> 0]

\* validateInput(n, maxValue): TRUE when it throws
validateInput(n, maxValue) ==
    \/ ~n.isInteger \/ n.value < 0
    \/ maxValue # NoMax /\ n.value > maxValue

InitSum ==
    /\ sumIn \in SumInputs
    /\ stackLimit \in StackSizes
    /\ spc = "a"
    /\ si = 0
    /\ sacc = 0
    /\ sdepth = 0
    /\ sumOut = [a |-> NoResult, b |-> NoResult, c |-> NoResult]

\* the variables when no sum is modelled
InitNoSum ==
    /\ sumIn = [isInteger |-> TRUE, value |-> 0]
    /\ stackLimit = LargeStackSize
    /\ spc = "done"
    /\ si = 0
    /\ sacc = 0
    /\ sdepth = 0
    /\ sumOut = [a |-> NoResult, b |-> NoResult, c |-> NoResult]

\* sum_to_n_a up to its loop
SumA ==
    /\ spc = "a"
    /\ IF validateInput(sumIn, NoMax)
       THEN /\ sumOut' = [sumOut EXCEPT !.a = Thrown("Error")]
            /\ spc' = "b"
            /\ UNCHANGED <<si, sacc>>
       ELSE IF sumIn.value = 0
       THEN /\ sumOut' = [sumOut EXCEPT !.a = Returned(0)]
            /\ spc' = "b"
            /\ UNCHANGED <<si, sacc>>
       ELSE /\ si' = 1
            /\ sacc' = 0
            /\ spc' = "a_loop"
            /\ UNCHANGED sumOut
    /\ UNCHANGED <<sumIn, stackLimit, sdepth>>
    /\ UNCHANGED exceptSum

\* one turn of for (let i = 1; i <= n; i++) sum += i, or the return after it
SumALoop ==
    /\ spc = "a_loop"
    /\ IF si <= sumIn.value
       THEN /\ sacc' = sacc + si
            /\ si' = si + 1
            /\ UNCHANGED <<spc, sumOut>>
       ELSE /\ sumOut' = [sumOut EXCEPT !.a = Returned(sacc)]
            /\ spc' = "b"
            /\ UNCHANGED <<si, sacc>>
    /\ UNCHANGED <<sumIn, stackLimit, sdepth>>
    /\ UNCHANGED exceptSum

\* sum_to_n_b
SumB ==
    /\ spc = "b"
    /\ sumOut' = [sumOut EXCEPT !.b =
          IF validateInput(sumIn, MAX_SAFE_FORMULA_INPUT) THEN Thrown("Error")
          ELSE IF sumIn.value = 0 THEN Returned(0)
          ELSE Returned((sumIn.value * (sumIn.value + 1)) \div 2)]
    /\ spc' = "c"
    /\ si' = sumIn.value
    /\ sacc' = 0
    /\ UNCHANGED <<sumIn, stackLimit, sdepth>>
    /\ UNCHANGED exceptSum

\* a call sum_to_n_c(si): a new frame, validateInput in a frame of its own,
\* then the base case or the recursive call; a call the stack has no room for
\* throws RangeError, which nothing catches
SumCCall ==
    /\ spc = "c"
    /\ IF sdepth + 2 > stackLimit
       THEN /\ sumOut' = [sumOut EXCEPT !.c = Thrown("RangeError")]
            /\ spc' = "done"
            /\ UNCHANGED <<si, sacc, sdepth>>
       ELSE IF validateInput([sumIn EXCEPT !.value = si], MAX_SAFE_RECURSIVE_INPUT)
       THEN /\ sumOut' = [sumOut EXCEPT !.c = Thrown("Error")]
            /\ spc' = "done"
            /\ UNCHANGED <<si, sacc, sdepth>>
       ELSE IF si = 0 \/ si = 1
       THEN /\ sacc' = si
            /\ IF sdepth = 0
               THEN /\ sumOut' = [sumOut EXCEPT !.c = Returned(si)]
                    /\ spc' = "done"
                    /\ UNCHANGED <<si, sdepth>>
               ELSE /\ spc' = "c_return"
                    /\ si' = si + 1
                    /\ UNCHANGED <<sdepth, sumOut>>
       ELSE /\ si' = si - 1
            /\ sdepth' = sdepth + 1
            /\ UNCHANGED <<spc, sacc, sumOut>>
    /\ UNCHANGED <<sumIn, stackLimit>>
    /\ UNCHANGED exceptSum

\* return n + sum_to_n_c(n - 1) in the frame whose argument is si
SumCReturn ==
    /\ spc = "c_return"
    /\ sdepth' = sdepth - 1
    /\ sacc' = si + sacc
    /\ IF sdepth = 1
       THEN /\ sumOut' = [sumOut EXCEPT !.c = Returned(si + sacc)]
            /\ spc' = "done"
            /\ UNCHANGED si
       ELSE /\ si' = si + 1
            /\ UNCHANGED <<spc, sumOut>>
    /\ UNCHANGED <<sumIn, stackLimit>>
    /\ UNCHANGED exceptSum

NextSum == SumA \/ SumALoop \/ SumB \/ SumCCall \/ SumCReturn

-----------------------------------------------------------------------------
(* Leaderboard cache: CacheService of README.md and the real-time scoreboard
   update flow of FLOW_DIAGRAM.md.  The top 10 of the code is scaled to TopN. *)

NumPlayers == 3
TopN == 2
MaxLbScore == 2
LbPoints == {1, 2}
Players == 1..NumPlayers
NoUserRow == -1

\* the players that have a row in the users table
Rows(score) == {p \in Players : score[p] # NoUserRow}

\* the leaderboard entries of a set of players
EntriesOf(score, S) == {[userId |-> p, score |-> score[p]] : p \in S}

\* database.getTopScores(n): the first n rows by current_score descending;
\* the order among equal scores is the database's choice, hence a set of results
getTopScores(score, n) ==
    {EntriesOf(score, S) : S \in
        {T \in SUBSET Rows(score) :
            /\ Cardinality(T) = Min(n, Cardinality(Rows(score)))
            /\ \A p \in T, q \in Rows(score) \ T : score[p] >= score[q]}}

\* CacheService.getScoreboard: the cached value when the key holds one,
\* otherwise the top scores of the database, which it caches
getScoreboard(cached, entries, score) ==
    IF cached THEN {entries} ELSE getTopScores(score, TopN)

\* CacheService.invalidateScoreboard: redis.del of the key; the result says
\* whether the key still holds a value
invalidateScoreboardKept(cached) == cached
invalidateScoreboard(cached) == FALSE

CachedUsers(entries) == {e.userId : e \in entries}

\* the lowest cached score, the N-th place when the cache is full
LowestCached(entries) ==
    CHOOSE s \in {e.score : e \in entries} : \A e \in entries : s <= e.score

\* "Affects Top 10?": the new score is at least the N-th place score of the
\* cache, or the user is in the cached set; a cache with fewer than N entries
\* has no N-th place, so every score enters it
AffectsTopN(cached, entries, userId, newScore) ==
    \/ ~cached
    \/ userId \in CachedUsers(entries)
    \/ Cardinality(entries) < TopN
    \/ newScore >= LowestCached(entries)

NoLbLast == [op |-> "none", userId |-> 0, score |-> 0, kept |-> FALSE,
             cachedBefore |-> FALSE, entriesBefore |-> {}]

InitLb ==
    /\ lbScore = [p \in Players |-> NoUserRow]
    /\ lbCached = FALSE
    /\ lbEntries = {}
    /\ lbLast = NoLbLast

\* a user registers: a users row with current_score DEFAULT 0
RegisterPlayer(p) ==
    /\ lbScore[p] = NoUserRow
    /\ lbScore' = [lbScore EXCEPT ![p] = 0]
    /\ lbLast' = [NoLbLast EXCEPT !.op = "register", !.userId = p]
    /\ UNCHANGED <<lbCached, lbEntries>>
    /\ UNCHANGED exceptLb

\* GET /api/scoreboard/top10 through CacheService.getScoreboard
GetScoreboard ==
    /\ \E r \in getScoreboard(lbCached, lbEntries, lbScore) :
          /\ lbEntries' = r
          /\ lbCached' = TRUE
    /\ lbLast' = [NoLbLast EXCEPT !.op = "get"]
    /\ UNCHANGED lbScore
    /\ UNCHANGED exceptLb

\* the ttl of scoreboard:top10 runs out
ExpireScoreboard ==
    /\ lbCached
    /\ lbCached' = FALSE
    /\ lbEntries' = {}
    /\ lbLast' = [NoLbLast EXCEPT !.op = "expire"]
    /\ UNCHANGED lbScore
    /\ UNCHANGED exceptLb

\* the update flow after an action: update the score in the database, then
\* either invalidate, refresh and update the scoreboard cache, or leave it
CommitScore(p, pts) ==
    /\ lbScore[p] # NoUserRow
    /\ lbScore[p] + pts <= MaxLbScore
    /\ LET newScore == lbScore[p] + pts
           after == [lbScore EXCEPT ![p] = newScore]
           affects == AffectsTopN(lbCached, lbEntries, p, newScore)
       IN  /\ lbScore' = after
           /\ IF affects
              THEN /\ \E r \in getScoreboard(invalidateScoreboard(lbCached), lbEntries, after) :
                        lbEntries' = r
                   /\ lbCached' = TRUE
              ELSE UNCHANGED <<lbCached, lbEntries>>
           /\ lbLast' = [op |-> "commit", userId |-> p, score |-> newScore,
                         kept |-> ~affects, cachedBefore |-> lbCached,
                         entriesBefore |-> lbEntries]
    /\ UNCHANGED exceptLb

NextLb ==
    \/ \E p \in Players : RegisterPlayer(p)
    \/ GetScoreboard
    \/ ExpireScoreboard
    \/ \E p \in Players, pts \in LbPoints : CommitScore(p, pts)

-----------------------------------------------------------------------------
(* Tier 4, dynamic adaptive rate limiting: api gateway guide *)

\* Reputation scoring: 0-100
MaxReputation == 100
NeutralReputation == 50

\* the base limits the tier adjusts: the per-action limits of tier 3
BaseLimits == {1, 10, 20, 100}

\* Adjust limits: limit x (reputation / 50).  The product is not an integer in
\* general and the code rounds nothing, so the value is kept in fiftieths of a
\* request: AdjustLimit(l, r) / 50 is the effective limit
AdjustLimit(baseLimit, reputation) == baseLimit * reputation

InitAdapt ==
    /\ adBase \in BaseLimits
    /\ adRep \in 0..MaxReputation
    /\ adOut = [done |-> FALSE, fiftieths |-> 0]

\* the variables when no adjustment is modelled
InitNoAdapt ==
    /\ adBase = 1
    /\ adRep = NeutralReputation
    /\ adOut = [done |-> FALSE, fiftieths |-> 0]

\* the limiter computes the effective limit of the user
Adjust ==
    /\ ~adOut.done
    /\ adOut' = [done |-> TRUE, fiftieths |-> AdjustLimit(adBase, adRep)]
    /\ UNCHANGED <<adBase, adRep>>
    /\ UNCHANGED exceptAd

NextAdapt == Adjust

-----------------------------------------------------------------------------
(* processAction calls running side by side: README, Pillar 4 *)

NoOneTime == [userId |-> "none", taskId |-> "none"]

\* the COMPLETE_TASK requests that reach processAction, each with a nonce of
\* its own
OneTimeRequests == [userId : Users, taskId : TaskIds]

OneTimeMetadata(req) ==
    [taskId |-> req.taskId, completionTime |-> 120, pointsRequested |-> 0]

\* the outcome of processAction on the task the call read
OutcomeOnRead(w) ==
    processAction(oreq[w].userId, "COMPLETE_TASK", OneTimeMetadata(oreq[w]),
                  [tasks EXCEPT ![oreq[w].taskId] = otask[w]], userLevel)

InitOt ==
    /\ opc = [w \in Workers |-> "idle"]
    /\ oreq = [w \in Workers |-> NoOneTime]
    /\ otask = [w \in Workers |-> NoTask]
    /\ awards = {}

\* processAction(userId, actionType, metadata) is called
CallProcessAction(w) ==
    /\ opc[w] = "idle"
    /\ \E req \in OneTimeRequests : oreq' = [oreq EXCEPT ![w] = req]
    /\ opc' = [opc EXCEPT ![w] = "getTask"]
    /\ UNCHANGED <<otask, awards>>
    /\ UNCHANGED exceptOt

\* const task = await getTask(metadata.taskId)
GetTask(w) ==
    /\ opc[w] = "getTask"
    /\ otask' = [otask EXCEPT ![w] = tasks[oreq[w].taskId]]
    /\ opc' = [opc EXCEPT ![w] = "validate"]
    /\ UNCHANGED <<oreq, awards>>
    /\ UNCHANGED exceptOt

\* the three throws of step 1, then the calculation up to
\* await getUserLevel(userId)
ValidatePreconditions(w) ==
    /\ opc[w] = "validate"
    /\ opc' = [opc EXCEPT ![w] =
                  IF OutcomeOnRead(w).status = "OK" THEN "award" ELSE "rejected"]
    /\ UNCHANGED <<oreq, otask, awards>>
    /\ UNCHANGED exceptOt

\* 3. AWARD points: await updateUserScore(userId, points); the task is not
\* written
AwardPoints(w) ==
    /\ opc[w] = "award"
    /\ awards' = awards \cup {[call |-> w, userId |-> oreq[w].userId,
                               taskId |-> oreq[w].taskId,
                               points |-> OutcomeOnRead(w).points]}
    /\ opc' = [opc EXCEPT ![w] = "done"]
    /\ UNCHANGED <<oreq, otask>>
    /\ UNCHANGED exceptOt

NextOt ==
    \E w \in Workers :
        \/ CallProcessAction(w)
        \/ GetTask(w)
        \/ ValidatePreconditions(w)
        \/ AwardPoints(w)

-----------------------------------------------------------------------------
(* User score cache: CacheService.getUserScore of README.md beside the
   database transaction flow of FLOW_DIAGRAM.md *)

NumReaders == 2
MaxUcCommits == 2
Readers == 1..NumReaders
UcDeltas == {10}
NoEntryCached == [present |-> FALSE, value |-> 0]
NoWriter == [pc |-> "idle", userId |-> "none"]

InitUc ==
    /\ ucDb = [u \in Users |-> 0]
    /\ ucCache = [u \in Users |-> NoEntryCached]
    /\ ucPc = [r \in Readers |-> "idle"]
    /\ ucUser = [r \in Readers |-> "none"]
    /\ ucData = [r \in Readers |-> 0]
    /\ ucWriter = NoWriter
    /\ ucCommits = 0

\* getUserScore(userId): const cached = await redis.get(key);
\* if (cached) return JSON.parse(cached)
GetUserScoreGet(r) ==
    /\ ucPc[r] = "idle"
    /\ \E u \in Users :
          /\ ucUser' = [ucUser EXCEPT ![r] = u]
          /\ IF ucCache[u].present
                THEN /\ ucData' = [ucData EXCEPT ![r] = ucCache[u].value]
                     /\ ucPc' = [ucPc EXCEPT ![r] = "returned"]
                ELSE /\ ucPc' = [ucPc EXCEPT ![r] = "query"]
                     /\ UNCHANGED ucData
    /\ UNCHANGED <<ucDb, ucCache, ucWriter, ucCommits>>
    /\ UNCHANGED exceptUc

\* const data = await database.getUserScore(userId)
GetUserScoreQuery(r) ==
    /\ ucPc[r] = "query"
    /\ ucData' = [ucData EXCEPT ![r] = ucDb[ucUser[r]]]
    /\ ucPc' = [ucPc EXCEPT ![r] = "setex"]
    /\ UNCHANGED <<ucDb, ucCache, ucUser, ucWriter, ucCommits>>
    /\ UNCHANGED exceptUc

\* await redis.setex(key, ttl, JSON.stringify(data)); return data
GetUserScoreSetex(r) ==
    /\ ucPc[r] = "setex"
    /\ ucCache' = [ucCache EXCEPT ![ucUser[r]] = [present |-> TRUE, value |-> ucData[r]]]
    /\ ucPc' = [ucPc EXCEPT ![r] = "returned"]
    /\ UNCHANGED <<ucDb, ucUser, ucData, ucWriter, ucCommits>>
    /\ UNCHANGED exceptUc

\* the caller has its answer; the call is over
GetUserScoreReturn(r) ==
    /\ ucPc[r] = "returned"
    /\ ucPc' = [ucPc EXCEPT ![r] = "idle"]
    /\ ucUser' = [ucUser EXCEPT ![r] = "none"]
    /\ ucData' = [ucData EXCEPT ![r] = 0]
    /\ UNCHANGED <<ucDb, ucCache, ucWriter, ucCommits>>
    /\ UNCHANGED exceptUc

\* UPDATE users SET current_score, the two inserts, COMMIT TRANSACTION
CommitTransaction ==
    /\ ucWriter.pc = "idle"
    /\ ucCommits < MaxUcCommits
    /\ \E u \in Users, d \in UcDeltas :
          /\ ucDb' = [ucDb EXCEPT ![u] = ucDb[u] + d]
          /\ ucWriter' = [pc |-> "invalidate", userId |-> u]
    /\ ucCommits' = ucCommits + 1
    /\ UNCHANGED <<ucCache, ucPc, ucUser, ucData>>
    /\ UNCHANGED exceptUc

\* Invalidate User Cache: the key of the user is deleted
InvalidateUserCache ==
    /\ ucWriter.pc = "invalidate"
    /\ ucCache' = [ucCache EXCEPT ![ucWriter.userId] = NoEntryCached]
    /\ ucWriter' = NoWriter
    /\ UNCHANGED <<ucDb, ucPc, ucUser, ucData, ucCommits>>
    /\ UNCHANGED exceptUc

NextUc ==
    \/ \E r \in Readers :
          \/ GetUserScoreGet(r)
          \/ GetUserScoreQuery(r)
          \/ GetUserScoreSetex(r)
          \/ GetUserScoreReturn(r)
    \/ CommitTransaction
    \/ InvalidateUserCache

\* the variables of the leaderboard and the later models at construction
InitLater == InitLb /\ InitNoAdapt /\ InitOt /\ InitUc

\* the listing's own variables when no listing is modelled
InitNoList ==
    /\ listColl = <<>>
    /\ listQuery = [limit |-> 1, sortOrder |-> "asc", category |-> NoCategory]
    /\ listPages = [p \in 1..MaxPage |-> NoListResponse]

InitRest == InitJob /\ InitBc /\ InitAuth /\ InitNews /\ InitPerm /\ InitNoList /\ InitNoSum /\ InitLater

Init == InitSig /\ InitSigConc /\ InitRate /\ InitRateConc /\ InitEng /\ InitLedger
        /\ InitPipe /\ InitRest

SpecSig == Init /\ [][NextSig]_vars
SpecSigConc == Init /\ [][NextSigConc]_vars
SpecRate == Init /\ [][NextRate]_vars
SpecRateConc == Init /\ [][NextRateConc]_vars
\* the score engine runs against any tasks and levels the server may hold
InitAnyEng ==
    InitSig /\ InitSigConc /\ InitRate /\ InitRateConc /\ InitEngAny /\ InitLedger /\ InitPipe
    /\ InitRest
SpecEng == InitAnyEng /\ [][NextEng]_vars

\* the ledger starts from any scores the users table may hold
InitAnyLedger ==
    InitSig /\ InitSigConc /\ InitRate /\ InitRateConc /\ InitEng /\ InitLedgerAny /\ InitPipe
    /\ InitRest
SpecLedger == InitAnyLedger /\ [][NextLedger]_vars

\* the pipeline runs against a server that holds tasks
InitWithTasks ==
    InitSig /\ InitSigConc /\ InitRate /\ InitRateConc /\ InitEngTasks /\ InitLedger /\ InitPipe
    /\ InitRest
SpecPipe == InitWithTasks /\ [][NextPipe]_vars
SpecJob == InitWithTasks /\ [][NextJob]_vars
SpecBc == Init /\ [][NextBc]_vars

\* the auth controller on a collection that may already hold a user
InitAnyAuth ==
    InitSig /\ InitSigConc /\ InitRate /\ InitRateConc /\ InitEng /\ InitLedger
    /\ InitPipe /\ InitJob /\ InitBc /\ InitAuthAny /\ InitNews /\ InitPerm /\ InitNoList /\ InitNoSum
    /\ InitLater
SpecAuth == InitAnyAuth /\ [][NextAuth]_vars

\* the news routes with the users of the news API in the collection
InitWithUsers ==
    InitSig /\ InitSigConc /\ InitRate /\ InitRateConc /\ InitEng /\ InitLedger
    /\ InitPipe /\ InitJob /\ InitBc /\ InitNewsUsers /\ InitNews /\ InitPerm /\ InitNoList /\ InitNoSum
    /\ InitLater
SpecNews == InitWithUsers /\ [][NextNews]_vars
SpecNewsCtl == InitWithUsers /\ [][NextNewsCtl]_vars
SpecRoles == InitWithUsers /\ [][NextRoles]_vars
SpecPerm == Init /\ [][NextPerm]_vars

\* listNews over a collection and a query drawn at the start
InitListing ==
    InitSig /\ InitSigConc /\ InitRate /\ InitRateConc /\ InitEng /\ InitLedger
    /\ InitPipe /\ InitJob /\ InitBc /\ InitAuth /\ InitNews /\ InitPerm /\ InitList /\ InitNoSum
    /\ InitLater
SpecList == InitListing /\ [][NextList]_vars

\* the three sum functions run on an argument and an engine drawn at the start
InitSumRun ==
    InitSig /\ InitSigConc /\ InitRate /\ InitRateConc /\ InitEng /\ InitLedger
    /\ InitPipe /\ InitJob /\ InitBc /\ InitAuth /\ InitNews /\ InitPerm /\ InitNoList
    /\ InitSum /\ InitLater
SpecSum == InitSumRun /\ [][NextSum]_vars
SpecLb == Init /\ [][NextLb]_vars

\* the models up to the sum functions at construction
InitEarlier ==
    InitSig /\ InitSigConc /\ InitRate /\ InitRateConc /\ InitEng /\ InitLedger
    /\ InitPipe /\ InitJob /\ InitBc /\ InitAuth /\ InitNews /\ InitPerm /\ InitNoList
    /\ InitNoSum

\* the adaptive tier on a base limit and a reputation drawn at the start
InitAdaptRun == InitEarlier /\ InitLb /\ InitAdapt /\ InitOt /\ InitUc
SpecAdapt == InitAdaptRun /\ [][NextAdapt]_vars
SpecOneTime == InitWithTasks /\ [][NextOt]_vars
SpecUc == Init /\ [][NextUc]_vars

-----------------------------------------------------------------------------
(* Claims on request signing *)

\* C1 as stated: the first submission of a correctly signed, fresh request
\* with an unused nonce is accepted, and every later submission of the same
\* request made while its nonce record is within the nonce TTL is rejected
\* with REPLAY_ATTACK, whatever the delay.
C1_ReplayAttackWhateverDelay ==
    /\ (/\ sigLast.result # "none"
        /\ ~sigLast.seenBefore
        /\ CorrectlySigned(sigLast.req)
        /\ sigLast.at - sigLast.req.timestamp <= StaleSeconds
        /\ sigLast.req.timestamp <= sigLast.at + FutureSeconds
        /\ \A a \in accepted : a.req.nonce = sigLast.req.nonce => a.req = sigLast.req)
       => sigLast.result = "OK"
    /\ (sigLast.seenBefore /\ sigLast.withinTTL) => sigLast.result = "REPLAY_ATTACK"

\* C1 amended: the first submission is accepted, and a later submission of the
\* same request within the nonce TTL is always rejected: with REPLAY_ATTACK
\* while now - timestamp <= 60 s, with STALE_REQUEST once it is older.
C1_ReplayRejectedWithinTTL ==
    /\ (/\ sigLast.result # "none"
        /\ ~sigLast.seenBefore
        /\ CorrectlySigned(sigLast.req)
        /\ sigLast.at - sigLast.req.timestamp <= StaleSeconds
        /\ sigLast.req.timestamp <= sigLast.at + FutureSeconds
        /\ \A a \in accepted : a.req.nonce = sigLast.req.nonce => a.req = sigLast.req)
       => sigLast.result = "OK"
    /\ (sigLast.seenBefore /\ sigLast.withinTTL)
       => sigLast.result = IF sigLast.at - sigLast.req.timestamp > StaleSeconds
                           THEN "STALE_REQUEST"
                           ELSE "REPLAY_ATTACK"

\* C1 witness: an accepted request is submitted again, later, within the TTL
C1_Witness ==
    /\ sigLast.seenBefore
    /\ sigLast.withinTTL
    /\ \E a \in accepted : a.req = sigLast.req /\ a.at < sigLast.at
    /\ sigLast.result = "REPLAY_ATTACK"

\* C5: a correctly signed request with now - timestamp > 60 s is rejected with
\* STALE_REQUEST, whether or not its nonce was ever used.
C5_StaleRejected ==
    (/\ sigLast.result # "none"
     /\ CorrectlySigned(sigLast.req)
     /\ sigLast.at - sigLast.req.timestamp > StaleSeconds)
    => sigLast.result = "STALE_REQUEST"

\* C5 witness: a correctly signed stale request whose nonce was never stored
C5_Witness ==
    /\ sigLast.result = "STALE_REQUEST"
    /\ CorrectlySigned(sigLast.req)
    /\ sigLast.at - sigLast.req.timestamp > StaleSeconds
    /\ nonceStore[sigLast.req.nonce] = NoEntry
    /\ ~sigLast.seenBefore

\* C21: verify inserts a nonce only on success: every nonce in the store was
\* put there by an accepted request, a rejected request leaves the store as it
\* was, and REPLAY_ATTACK is answered only for a nonce an accepted request used
C21_NonceOnlyOnSuccess ==
    /\ \A n \in Nonces :
          nonceStore[n] # NoEntry =>
              \E a \in accepted : a.req.nonce = n /\ nonceStore[n] = a.at + NonceTTL
    /\ sigLast.result = "REPLAY_ATTACK" =>
          \E a \in accepted : a.req.nonce = sigLast.req.nonce /\ a.at <= sigLast.at

\* a request with a wrong signature has been rejected and its nonce is unused
C21_Witness ==
    /\ sigLast.result = "INVALID_SIGNATURE"
    /\ nonceStore[sigLast.req.nonce] = NoEntry

\* C25: a nonce stays in the store at least as long as the request that
\* inserted it can pass the timestamp check: no accepted request, one with a
\* timestamp ahead of the server clock included, passes the timestamp check
\* while its nonce has expired
C25_NonceOutlivesFreshness ==
    \A a \in accepted :
        (~IsStale(a.req, now) /\ ~IsFuture(a.req, now)) =>
            (nonceStore[a.req.nonce] # NoEntry /\ now < nonceStore[a.req.nonce])

\* a request accepted with a timestamp ahead of the clock still passes the
\* timestamp check 60 seconds after it was accepted
C25_Witness ==
    \E a \in accepted :
        /\ a.req.timestamp > a.at
        /\ now >= a.at + StaleSeconds
        /\ ~IsStale(a.req, now)
        /\ ~IsFuture(a.req, now)

\* C10 as stated: of the concurrent verify calls on one signed request at most
\* one is accepted, under every interleaving of the nonce lookup and the
\* nonce insertion.
C10_AtMostOneAccepted ==
    \A c1, c2 \in Calls :
        (c1 # c2 /\ vreq[c1] = vreq[c2] /\ vresult[c1] = "OK") => vresult[c2] # "OK"

-----------------------------------------------------------------------------
(* Claims on rate limiting *)

\* the calls on the key of the last call, before it, that were allowed less
\* than one window before it
AllowedInWindowOfLast ==
    { a \in AllowedCalls : /\ a.key = rlLast.key
                           /\ a.id # rlLast.id
                           /\ rlLast.at - a.at < WindowSeconds }

\* C4: with a limit of N per window on one key, a call that finds N allowed
\* calls less than one window old is rejected with RATE_LIMIT_EXCEEDED, a call
\* that finds fewer is allowed, and so is a call that arrives when the window
\* has elapsed since every earlier entry.
C4_RateLimitBoundary ==
    rlLast.result # "none" =>
        /\ Cardinality(AllowedInWindowOfLast) >= limit => rlLast.result = "RATE_LIMIT_EXCEEDED"
        /\ Cardinality(AllowedInWindowOfLast) < limit => rlLast.result = "OK"
        /\ (\A a \in AllowedCalls :
               (a.key = rlLast.key /\ a.id # rlLast.id) => rlLast.at - a.at >= WindowSeconds)
           => rlLast.result = "OK"

\* C4 witness: after N allowed calls and a rejected (N+1)-th in one window, a
\* call arriving one window later is allowed again
C4_Witness ==
    /\ rlLast.result = "OK"
    /\ \E r \in rlCalls : /\ r.key = rlLast.key
                          /\ r.result = "RATE_LIMIT_EXCEEDED"
                          /\ Cardinality({ a \in AllowedCalls :
                                 a.key = r.key /\ a.id < r.id /\ r.at - a.at < WindowSeconds }) = limit
                          /\ rlLast.at - r.at >= WindowSeconds

\* C9 as stated: under every interleaving of the purge, count and add commands
\* of concurrent check calls on one key, at most N calls are allowed within
\* one window, and two calls of one instant that both counted N-1 entries are
\* never both allowed.
C9_AtMostLimitPerWindow ==
    /\ \A a \in AllowedCalls :
           Cardinality({ b \in AllowedCalls : /\ b.key = a.key
                                              /\ a.at - WindowSeconds < b.at
                                              /\ b.at <= a.at }) <= limit
    /\ \A a, b \in AllowedCalls :
           (a # b /\ a.key = b.key /\ a.at = b.at)
           => ~(a.count = limit - 1 /\ b.count = limit - 1)

-----------------------------------------------------------------------------
(* Claims on the score engine *)

\* C6: two requests that differ only in the client-asserted reward
\* (pointsRequested), processed against the same tasks, levels and score
\* table, get the same outcome and the same points.
C6_RewardFieldIgnored ==
    (/\ engIn # NoAction
     /\ engIn.userId = engAlt.userId
     /\ engIn.actionType = engAlt.actionType
     /\ engIn.metadata.taskId = engAlt.metadata.taskId
     /\ engIn.metadata.completionTime = engAlt.metadata.completionTime)
    => engOut = engOutAlt

\* C6 witness: an awarded request whose copy asks for another reward
C6_Witness ==
    /\ engOut.status = "OK"
    /\ engOut.points > 0
    /\ engIn.metadata.pointsRequested # engAlt.metadata.pointsRequested
    /\ engOut.points # engIn.metadata.pointsRequested

-----------------------------------------------------------------------------
(* Claims on the transactional ledger *)

TxIds == 1..Len(txLog)
CommittedFor(userId) ==
    { i \in TxIds : txLog[i].userId = userId /\ txLog[i].status = "committed" }

RECURSIVE SumDeltas(_)
SumDeltas(ids) ==
    IF ids = {} THEN 0
    ELSE LET i == CHOOSE j \in ids : TRUE
         IN txLog[i].delta + SumDeltas(ids \ {i})

\* two transactions ran concurrently: b began before a committed, and
\* committed after it
Overlapped(a, b) ==
    /\ txLog[a].status = "committed"
    /\ txLog[b].status = "committed"
    /\ txLog[b].began < txLog[a].order
    /\ txLog[a].order < txLog[b].order

\* C2: whenever the N commits that succeeded for a user each awarded the same
\* delta d, current_score is the initial score plus N*d and the user has
\* exactly N score_history rows, whatever the interleaving of the
\* transactions.
C2_NoLostUpdate ==
    \A u \in Users, d \in Deltas :
        (\A i \in CommittedFor(u) : txLog[i].delta = d)
        => /\ current_score[u] = initialScore[u] + Cardinality(CommittedFor(u)) * d
           /\ Len(RowsOf(score_history, u)) = Cardinality(CommittedFor(u))

\* C2 witness: two overlapping transactions of one user, both committed with
\* the same delta
C2_Witness ==
    \E a, b \in TxIds :
        /\ Overlapped(a, b)
        /\ txLog[a].userId = txLog[b].userId
        /\ txLog[a].delta = txLog[b].delta
        /\ current_score[txLog[a].userId] =
               initialScore[txLog[a].userId] + 2 * txLog[a].delta

RECURSIVE Replay(_, _)
Replay(score, rows) ==
    IF rows = <<>> THEN score
    ELSE Replay(score + Head(rows).score_change, Tail(rows))

\* C3: every row has score_after = score_before + score_change; for each
\* user the score_before of a row is the score_after of the user's previous
\* row; and replaying the user's rows in commit order from the initial score
\* gives current_score.
C3_LedgerChain ==
    /\ \A k \in 1..Len(score_history) :
           score_history[k].score_after =
               score_history[k].score_before + score_history[k].score_change
    /\ \A u \in Users :
           LET rows == RowsOf(score_history, u)
           IN /\ \A k \in 1..(Len(rows) - 1) :
                     rows[k + 1].score_before = rows[k].score_after
              /\ Replay(initialScore[u], rows) = current_score[u]

\* C3 witness: a user with two rows of different deltas, and an initial
\* score that is not zero
C3_Witness ==
    \E u \in Users :
        LET rows == RowsOf(score_history, u)
        IN /\ Len(rows) >= 2
           /\ rows[1].score_change # rows[2].score_change
           /\ initialScore[u] # 0
           /\ current_score[u] = rows[2].score_after

RowIds == { score_history[k].id : k \in 1..Len(score_history) }

\* C8: in every state, a transaction's score_history row is present exactly
\* when the transaction committed, and current_score is the initial score
\* plus the deltas of exactly the committed transactions; a transaction that
\* failed after some of its writes, or is still open, shows neither.
C8_AtomicCommit ==
    /\ \A i \in TxIds : (i \in RowIds) <=> (txLog[i].status = "committed")
    /\ \A u \in Users :
           current_score[u] = initialScore[u] + SumDeltas(CommittedFor(u))

\* C8 witness: a transaction rolled back after its UPDATE and its INSERT into
\* score_history, while another transaction has committed
C8_Witness ==
    /\ \E i \in TxIds : txLog[i].status = "rolledBack" /\ txLog[i].dropped
    /\ \E i \in TxIds : txLog[i].status = "committed"

-----------------------------------------------------------------------------
(* Claims on the pipeline *)

\* the place in a trace of the last check of a gate, 0 when it has none
LastAccept(trace, gate) ==
    LET at == { k \in 1..Len(trace) : trace[k].gate = gate }
    IN IF at = {} THEN 0 ELSE CHOOSE k \in at : \A j \in at : j <= k

\* the four gates accepted the request one after the other
GatesInOrder(trace) ==
    /\ 0 < LastAccept(trace, "RateLimiter")
    /\ LastAccept(trace, "RateLimiter") < LastAccept(trace, "AuthGate")
    /\ LastAccept(trace, "AuthGate") < LastAccept(trace, "SignatureVerifier")
    /\ LastAccept(trace, "SignatureVerifier") < LastAccept(trace, "ScoreEngine")

\* C7: the score transaction of a request commits only after RateLimiter,
\* AuthGate, SignatureVerifier and ScoreEngine have accepted the request, in
\* that order; and a rejected request leaves no score_history row, no change
\* of current_score, no deleted cache key and no broadcast.
C7_PipelineGating ==
    /\ \A e \in pipeLog : e.result = "OK" => GatesInOrder(e.trace)
    /\ \A e \in pipeLog : e.result # "OK" =>
           /\ e.id \notin RowIds
           /\ \A d \in cacheDeleted : d.id # e.id
           /\ \A p \in published : p.id # e.id
    /\ \A u \in Users :
           current_score[u] = Replay(0, RowsOf(score_history, u))

-----------------------------------------------------------------------------
(* Claims on the action processing queue *)

Retryable(error) == error \in {"STORE_UNAVAILABLE", "CONCURRENT_MODIFICATION"}

\* C11: a job is attempted at most 3 times; an attempt that fails with an
\* error other than STORE_UNAVAILABLE or CONCURRENT_MODIFICATION is the last
\* attempt of the job, which has failed; and a job that failed on retryable
\* errors only was attempted 3 times.
C11_RetryPolicy ==
    /\ Len(jtrail) <= 3
    /\ \A k \in 1..Len(jtrail) :
           ~Retryable(jtrail[k]) => (k = Len(jtrail) /\ jpc = "failed")
    /\ (jpc = "failed" /\ \A k \in 1..Len(jtrail) : Retryable(jtrail[k]))
           => Len(jtrail) = 3

-----------------------------------------------------------------------------
(* Claims on the message queue *)

\* C12: no published score_updated event is lost to a subscribing instance:
\* each instance, also one that was restarting when the event was published,
\* has broadcast the event or still has it on its way; an event that is
\* neither can never be delivered.
C12_NoEventLost ==
    \A e \in 1..evCount, i \in Instances : e \in received[i] \cup inflight[i]

-----------------------------------------------------------------------------
(* Claims on access control of the news API *)

\* the header carries a token the server issued, unexpired, of a user that
\* is in the collection and active
ValidActiveBearer(header) ==
    /\ header.scheme = "Bearer"
    /\ header.token \in tokens
    /\ header.token.id \in 1..Len(users)
    /\ users[header.token.id].isActive

\* the role the collection holds for the header's user
StoredRole(header) == users[header.token.id].role

AllowedRoles(op) == IF op = "delete" THEN {USER_ROLES.ADMIN} ELSE {USER_ROLES.ADMIN, USER_ROLES.EDITOR}

\* C13: createNews and updateNews run only for a valid bearer token of an
\* existing, active admin or editor, deleteNews only for an admin; without such
\* a token, or for a missing or inactive user, the answer is 401, for another
\* role 403, and in both cases the news store is unchanged; listing and
\* reading need no token
C13_AccessControl ==
    /\ newsLast.op \in {"create", "update", "delete"} =>
          /\ newsLast.ran =>
                /\ ValidActiveBearer(newsLast.header)
                /\ StoredRole(newsLast.header) \in AllowedRoles(newsLast.op)
          /\ ~ValidActiveBearer(newsLast.header) =>
                newsLast.status = 401 /\ news = newsLast.before
          /\ (ValidActiveBearer(newsLast.header)
                /\ StoredRole(newsLast.header) \notin AllowedRoles(newsLast.op)) =>
                newsLast.status = 403 /\ news = newsLast.before
    /\ newsLast.op \in {"get", "list"} =>
          newsLast.ran /\ newsLast.status \notin {401, 403}

\* an editor's delete has been refused with 403 while an article is stored
C13_Witness ==
    /\ newsLast.op = "delete"
    /\ ValidActiveBearer(newsLast.header)
    /\ StoredRole(newsLast.header) = USER_ROLES.EDITOR
    /\ newsLast.status = 403
    /\ NewsFindById(news, newsLast.id) # 0

-----------------------------------------------------------------------------
(* Claims on the role permission table *)

\* the documented RBAC table
DocumentedGrant(role, permission) ==
    CASE role = "admin" -> TRUE
      [] role = "editor" -> permission \in {"create", "read", "update"}
      [] role = "viewer" -> permission = "read"
      [] OTHER -> FALSE

\* C14: hasPermission(role, action) is true exactly when the documented RBAC
\* table grants the action to the role, and it agrees with what the news
\* route guards admit for that role
C14_PermissionTable ==
    \A k \in 1..Len(permLog) :
        /\ permLog[k].granted = DocumentedGrant(permLog[k].role, permLog[k].permission)
        /\ permLog[k].permission \in {"create", "read", "update", "delete"} =>
              permLog[k].granted = permLog[k].admitted

-----------------------------------------------------------------------------
(* Claims on the auth controller *)

\* two spellings of one address, compared without regard to case
SameEmail(a, b) == a = b \/ {a, b} = {"a@x.com", "A@x.com"}

\* C15: registering an email that is already registered, compared
\* case-insensitively, fails with 409 'Email already registered', creates no
\* user and issues no token; the collection never holds two users with the
\* same email
C15_RegisterDuplicate ==
    /\ (/\ authLast.op = "register"
        /\ \E i \in 1..Len(authLast.usersBefore) :
              SameEmail(authLast.usersBefore[i].email, authLast.email)) =>
          /\ authResp.status = 409
          /\ authResp.message = "Email already registered"
          /\ authResp.token = NoToken
          /\ users = authLast.usersBefore
          /\ tokens = authLast.tokensBefore
    /\ \A i, j \in 1..Len(users) : SameEmail(users[i].email, users[j].email) => i = j

\* a registration of A@x.com has been refused because a@x.com is registered
C15_Witness ==
    /\ authLast.op = "register"
    /\ authLast.email = "A@x.com"
    /\ authResp.status = 409
    /\ \E i \in 1..Len(users) : users[i].email = "a@x.com"

\* the user of the last changePassword request, in the collection before it
ChangedUser == authLast.usersBefore[authLast.header.token.id]

\* the last request was a changePassword that passed authenticate
ChangeRequested ==
    /\ authLast.op = "changePassword"
    /\ authLast.header.scheme = "Bearer"
    /\ authLast.header.token \in tokens
    /\ authLast.header.token.id \in 1..Len(authLast.usersBefore)
    /\ ChangedUser.isActive

\* a changePassword whose currentPassword is wrong returns 401 and leaves the
\* collection unchanged, so every login is answered as before
WrongCurrentRefused ==
    (ChangeRequested /\ ChangedUser.password # <<"bcrypt", authLast.password>>) =>
        /\ authResp.status = 401
        /\ users = authLast.usersBefore
        /\ \A p \in Passwords :
              LoginResult(users, ChangedUser.email, p).status
                  = LoginResult(authLast.usersBefore, ChangedUser.email, p).status
        /\ \E p \in Passwords : LoginResult(users, ChangedUser.email, p).status = 200

\* C16 as stated: after a changePassword that succeeds, login with the old
\* password fails with 401 and login with the new one succeeds; a wrong
\* currentPassword is refused with 401 and changes nothing
C16_ChangePassword ==
    /\ (ChangeRequested /\ authResp.status = 200) =>
          /\ LoginResult(users, ChangedUser.email, authLast.password).status = 401
          /\ LoginResult(users, ChangedUser.email, authLast.newPassword).status = 200
    /\ WrongCurrentRefused

\* C16, amended: the same when the new password differs from the current one
C16_ChangePasswordToAnother ==
    /\ (ChangeRequested /\ authResp.status = 200
            /\ authLast.newPassword # authLast.password) =>
          /\ LoginResult(users, ChangedUser.email, authLast.password).status = 401
          /\ LoginResult(users, ChangedUser.email, authLast.newPassword).status = 200
    /\ WrongCurrentRefused

\* a password has been changed to another one
C16_Witness ==
    /\ ChangeRequested
    /\ authResp.status = 200
    /\ authLast.newPassword # authLast.password
    /\ users # authLast.usersBefore

\* the users of the collection before the last request with the email asked for
Matching == {i \in 1..Len(authLast.usersBefore) :
                SameEmail(authLast.usersBefore[i].email, authLast.email)}

\* C17: login answers 401 'Invalid email or password' when no user has the
\* email, 403 when the user is deactivated, 401 'Invalid email or password'
\* when the user is active and the password does not match, 200 with a token
\* only when the user is active and the password matches; a failure issues
\* no token
C17_LoginOutcomes ==
    authLast.op = "login" =>
        /\ Matching = {} =>
              authResp.status = 401 /\ authResp.message = "Invalid email or password"
        /\ \A i \in Matching :
              LET user == authLast.usersBefore[i]
                  matches == user.password = <<"bcrypt", authLast.password>>
              IN  /\ ~user.isActive => authResp.status = 403
                  /\ (user.isActive /\ ~matches) =>
                        /\ authResp.status = 401
                        /\ authResp.message = "Invalid email or password"
                  /\ (user.isActive /\ matches) =>
                        /\ authResp.status = 200
                        /\ authResp.token = [id |-> i, email |-> user.email,
                                             role |-> user.role, sig |-> "server"]
        /\ authResp.status # 200 =>
              authResp.token = NoToken /\ tokens = authLast.tokensBefore

\* a deactivated user has logged in with the right password and got 403
C17_Witness ==
    /\ authLast.op = "login"
    /\ authResp.status = 403
    /\ \E i \in Matching :
          authLast.usersBefore[i].password = <<"bcrypt", authLast.password>>

-----------------------------------------------------------------------------
(* Claims on the news controller *)

\* the article the last request was about, before and after it
ArticleBefore == newsLast.before[newsLast.id]
ArticleAfter == news[newsLast.id]

Publishing == newsLast.body.status = "published" /\ newsLast.body.publishedAt = NoDate

\* C18: every stored article whose status is 'published' has a publishedAt;
\* createNews sets it to the current time when the status is 'published' and
\* none is given, updateNews sets it when the status changes to 'published'
\* and neither the update nor the article has one, and never replaces the one
\* the article already has
C18_PublishedAt ==
    /\ \A i \in 1..Len(news) : news[i].status = "published" => news[i].publishedAt # NoDate
    /\ (newsLast.op = "create" /\ newsLast.status = 201 /\ Publishing) =>
          ArticleAfter.publishedAt = newsLast.at
    /\ (newsLast.op = "update" /\ newsLast.status = 200 /\ Publishing) =>
          ArticleAfter.publishedAt = IF ArticleBefore.publishedAt = NoDate
                                     THEN newsLast.at
                                     ELSE ArticleBefore.publishedAt

\* an update has published a draft that had no date, and stamped it
C18_Witness ==
    /\ newsLast.op = "update"
    /\ newsLast.status = 200
    /\ Publishing
    /\ ArticleBefore.status = "draft"
    /\ ArticleBefore.publishedAt = NoDate
    /\ ArticleAfter.publishedAt = newsLast.at

-----------------------------------------------------------------------------
(* Claims on listNews *)

\* the matching articles, their number, and the number of those whose key
\* comes before k in the sort order
Matching19 ==
    {i \in DOMAIN listColl :
        listQuery.category = NoCategory \/ listColl[i].category = listQuery.category}
T19 == Cardinality(Matching19)
Before19(k) ==
    Cardinality({i \in Matching19 :
        IF listQuery.sortOrder = "asc" THEN listColl[i].key < k ELSE listColl[i].key > k})
UpTo19(k) ==
    Cardinality({i \in Matching19 :
        IF listQuery.sortOrder = "asc" THEN listColl[i].key <= k ELSE listColl[i].key >= k})

\* the response for page p: the counts, the flags, and data holding matching
\* articles whose keys are those of the sorted positions (p-1)*L+1 .. min(p*L, T)
PageRight(p) ==
    LET r == listPages[p]
        L == listQuery.limit
        first == (p - 1) * L + 1
        last == IF p * L < T19 THEN p * L ELSE T19
    IN  /\ r.totalItems = T19
        /\ r.totalPages * L >= T19
        /\ (r.totalPages - 1) * L < T19 \/ (T19 = 0 /\ r.totalPages = 0)
        /\ r.hasPrevPage = (p > 1)
        /\ r.hasNextPage = (p < r.totalPages)
        /\ r.hasNextPage = (p * L < T19)
        /\ Len(r.data) = (IF last >= first THEN last - first + 1 ELSE 0)
        /\ \A k \in 1..Len(r.data) :
              /\ r.data[k] \in Matching19
              /\ Before19(listColl[r.data[k]].key) < first + k
              /\ UpTo19(listColl[r.data[k]].key) >= first + k - 1
        /\ \A j, k \in 1..Len(r.data) : j # k => r.data[j] # r.data[k]

\* how often article i occurs in the pages asked so far
Occurrences(i) ==
    Cardinality({<<p, k>> \in (1..MaxPage) \X (1..MaxLimit) :
        k <= Len(listPages[p].data) /\ listPages[p].data[k] = i})

\* every page 1..totalPages has been asked
AllPagesAsked ==
    \A p \in 1..MaxPage : p * listQuery.limit < T19 + listQuery.limit => listPages[p].asked

\* every response is right page by page
C19_EachPage == \A p \in 1..MaxPage : listPages[p].asked => PageRight(p)

\* C19: for page p and limit L over T matching articles the response has
\* totalItems = T, totalPages = ceil(T / L), hasPrevPage = (p > 1),
\* hasNextPage = (p < totalPages), true exactly when a later page holds an
\* article, the data are the articles at sorted positions (p-1)*L+1 ..
\* min(p*L, T), and pages 1..totalPages together contain every matching
\* article exactly once
C19_Pagination ==
    /\ \A p \in 1..MaxPage : listPages[p].asked => PageRight(p)
    /\ AllPagesAsked => \A i \in Matching19 : Occurrences(i) = 1

-----------------------------------------------------------------------------
(* Claims on the three sum functions *)

AllThrew == \A f \in {"a", "b", "c"} : sumOut[f].kind \in {"Error", "RangeError"}

\* C20: for every integer n with 0 <= n <= MAX_SAFE_RECURSIVE_INPUT the three
\* functions return the same value, n*(n+1)/2, and the recursion of
\* sum_to_n_c ends; for a negative or non-integer n all three throw
C20_SumToN ==
    spc = "done" =>
        IF sumIn.isInteger /\ sumIn.value >= 0
        THEN sumIn.value <= 10000 =>
                \A f \in {"a", "b", "c"} :
                    sumOut[f] = [kind |-> "value",
                                 value |-> (sumIn.value * (sumIn.value + 1)) \div 2]
        ELSE AllThrew

\* what holds on an engine whose stack has room for the recursion
C20_WithRoom ==
    (spc = "done" /\ stackLimit >= 10002) =>
        IF sumIn.isInteger /\ sumIn.value >= 0
        THEN sumIn.value <= 10000 =>
                \A f \in {"a", "b", "c"} :
                    sumOut[f] = [kind |-> "value",
                                 value |-> (sumIn.value * (sumIn.value + 1)) \div 2]
        ELSE AllThrew
-----------------------------------------------------------------------------
(* Claims on the leaderboard cache *)

\* the entries are a top N of the users table by current score
IsTopN(entries, score) == entries \in getTopScores(score, TopN)

\* the case in which the cache may stay: it held N entries, the user was not
\* among them and the new score is below the N-th place
BelowCache ==
    /\ lbLast.cachedBefore
    /\ Cardinality(lbLast.entriesBefore) = TopN
    /\ lbLast.userId \notin CachedUsers(lbLast.entriesBefore)
    /\ \A e \in lbLast.entriesBefore : lbLast.score < e.score

-----------------------------------------------------------------------------
(* Claims on the broadcaster *)

\* the committed score_history row an event tells of
CommittedRowOf(e) ==
    {i \in 1..Len(score_history) :
        /\ score_history[i].id = e.id
        /\ score_history[i].user_id = e.userId
        /\ score_history[i].score_after = e.newScore}

\* C23: every published score-updated event corresponds to a transaction that
\* is already committed to the ledger and carries its userId and its
\* score_after; attempts that were rejected or rolled back publish nothing,
\* so there are never more events than committed transactions
C23_EventsAfterCommit ==
    /\ \A e \in published : CommittedRowOf(e) # {}
    /\ Cardinality(published) <= Len(score_history)
C23_Witness ==
    /\ published # {}
    /\ \E i \in 1..Len(jtrail) : jtrail[i] \in DatabaseErrors
    /\ Len(score_history) > Cardinality(published)
-----------------------------------------------------------------------------
(* Claims on the adaptive rate-limit tier *)

\* C24 as stated: the effective limit of every base limit and reputation is
\* never below a positive minimum (never 0, at reputation 0 in particular),
\* never above twice the base limit, the base limit at reputation 50, and
\* non-decreasing in the reputation
C24_AdaptiveLimit ==
    adOut.done =>
        /\ adOut.fiftieths > 0
        /\ adOut.fiftieths <= 2 * adBase * NeutralReputation
        /\ adRep = NeutralReputation => adOut.fiftieths = adBase * NeutralReputation
        /\ \A r \in 0..adRep : AdjustLimit(adBase, r) <= adOut.fiftieths

\* what the formula of the code gives: the effective limit is base * r / 50
\* with no minimum, 0 at reputation 0
C24_Unclamped ==
    adOut.done =>
        /\ adOut.fiftieths = adBase * adRep
        /\ adOut.fiftieths <= 2 * adBase * NeutralReputation
        /\ adRep = NeutralReputation => adOut.fiftieths = adBase * NeutralReputation
        /\ \A r \in 0..adRep : AdjustLimit(adBase, r) <= adOut.fiftieths
        /\ adRep = 0 => adOut.fiftieths = 0
-----------------------------------------------------------------------------
(* Claims on one-time actions *)

\* the awards committed for a user and a task
AwardsFor(u, t) == {a \in awards : a.userId = u /\ a.taskId = t}

\* C26: for every user and task at most one award is ever committed, also
\* when two requests for the same task are processed side by side
C26_AwardedOnce ==
    \A u \in Users, t \in TaskIds : Cardinality(AwardsFor(u, t)) <= 1
-----------------------------------------------------------------------------
(* Claims on retried jobs *)

\* C27: each accepted request changes the ledger at most once, retried
\* attempts included: there are never more score_history rows, nor more rows
\* of the actions table, than jobs that were added
C27_AppliedOnce ==
    /\ Len(score_history) <= jcount
    /\ Cardinality(actions) <= jcount
-----------------------------------------------------------------------------
(* Claims on the user score cache *)

\* no getUserScore call and no score update is under way
AllFinished ==
    /\ \A r \in Readers : ucPc[r] \in {"idle", "returned"}
    /\ ucWriter.pc = "idle"

\* C28: once the read-through fills and the commits with their invalidations
\* have finished, the cache holds for each user no entry or the committed
\* current score, never a score from before a commit
C28_UserCacheCoherent ==
    AllFinished =>
        \A u \in Users : ucCache[u].present => ucCache[u].value = ucDb[u]
-----------------------------------------------------------------------------
(* Claims on the role authorize checks *)

\* C29: every request admitted by authorize(roles) is made by a user whose
\* role in the users collection at the time of the check is one of roles; a
\* token issued before the stored role changed to one outside roles is not
\* admitted
C29_CurrentRole ==
    (newsLast.op \in {"create", "delete"} /\ newsLast.ran) =>
        StoredRole(newsLast.header) \in AllowedRoles(newsLast.op)
-----------------------------------------------------------------------------
(* Claims on what login reveals *)

\* the password of the last request is not the one of any user with the email
\* asked for
IncorrectPassword ==
    \A i \in Matching : authLast.usersBefore[i].password # Hash(authLast.password)

\* C30: for every email and every incorrect password the login response,
\* status and message, is the one given when no account has the email,
\* whether an account exists or not and whether it is active or deactivated
C30_LoginRevealsNothing ==
    (authLast.op = "login" /\ IncorrectPassword) =>
        /\ authResp.status = LoginResult(<<>>, authLast.email, authLast.password).status
        /\ authResp.message = LoginResult(<<>>, authLast.email, authLast.password).message

=============================================================================
